---- MODULE Spec2Model ----
(***************************************************************************)
(* A model of the HyperSpace TUN interface engine (hs::TUNInterface) and   *)
(* of the containers it is built on: LinkedBlockingDeque with its two      *)
(* Semaphores, ArrayList (known-IP set) and ConcurrentHashMap (DNS map).   *)
(*                                                                         *)
(* The module holds several specifications over one set of variables,      *)
(* one per part of the engine:                                             *)
(*   SpecDeque    the deque alone, driven by client threads                *)
(*   Spec         the write path: enqueueWrite on caller threads, onWrite  *)
(*                on the reactor thread                                    *)
(*   SpecLife     start() / stop() and the reactor thread's set-up         *)
(*   SpecKnownIP  the known-IP mutators on several threads                 *)
(*   SpecDNS      the DNS-map mutators                                     *)
(*   SpecPacket, SpecPacketWrite  onRead / writePacket and their packet    *)
(*                classification, without and with the write path          *)
(*   SpecRead     onRead alone, short and cyclic-pointer buffers included  *)
(*   SpecChecksum writePacket on ICMP echo requests                        *)
(*   SpecLifeFair, SpecFair  SpecLife and Spec under fair scheduling       *)
(*   SpecRun, SpecRunFair  start, stop, enqueueWrite and onWrite together  *)
(*   SpecSnapshot forEach on the DNS map against its mutators              *)
(*   SpecIPScan   the range-for over the known-IP list against mutators    *)
(*   SpecEcho     the echo reply of writePacket, byte by byte              *)
(*   SpecClear    the deque with clear() among its calls                   *)
(*   SpecPut      put and remove on the DNS map                            *)
(*   SpecCallBack, SpecCallBackFair  the callback slot and its mutex       *)
(* The variables a specification does not use keep their initial value.    *)
(***************************************************************************)
EXTENDS Integers, Sequences, FiniteSets, TLC

VARIABLES
    crashed,      \* the process has died (a null dereference, a wild pointer)
    dq,           \* the LinkedBlockingDeque: capacity, _count, semaphores, nodes
    qpc,          \* per thread: the step of the deque call it is in
    qarg,         \* per thread: the argument of that call
    qret,         \* per thread: what the call returned (an optional)
    opsLeft,      \* SpecDeque: deque calls the clients may still make
    epc,          \* per thread: where it is in enqueueWrite / onWrite
    nextPkt,      \* the next packet a caller passes to enqueueWrite
    hist,         \* history: the takes and write() calls of onWrite, in order
    fdLog,        \* history: the buffers write() has put on the tun fd
    enqLog,       \* history: the buffers in the order enqueue appended them
    fails,        \* history: the number of write() calls that failed
    fdCalls,      \* history: the threads that called read() or write() on the fd
    tunFD,        \* TUNInterface::tunFD
    fdOpen,       \* whether the descriptor is open
    base,         \* TUNInterface::base
    readEvent,    \* TUNInterface::readEvent
    writeEvent,   \* TUNInterface::writeEvent
    bases,        \* the event bases event_base_new has made
    readEv,       \* the read events event_new has made
    writeEv,      \* the write events event_new has made
    rpc,          \* per reactor thread: where it is in the lambda of start()
    rbase,        \* per reactor thread: the base it passed to event_base_dispatch
    startsBegun,  \* the start() calls that have reached pthread_create
    startsDone,   \* the start() calls that have returned
    stopsDone,    \* the stop() calls that have returned
    stopSeen,     \* history: the reactor threads a stop() call was made for
    closes,       \* history: the number of close() calls on the descriptor
    knownIPAddresses, \* TUNInterface::knownIPAddresses (ArrayList::array)
    ipc,          \* per thread: where it is in a known-IP mutator
    iparg,        \* per thread: the argument of that mutator
    ipOps,        \* known-IP mutator calls still to be made
    dnsMap,       \* TUNInterface::dnsMap
    dnsLast,      \* the last call made on the DNS mapping, if any
    dnsOnlyAdds,  \* every call on the DNS mapping so far was addDNSEntry
    callBack,     \* TUNInterface::callBack holds a function
    readLog,      \* history: the buffers read() returned, in order
    cbLog,        \* history: the calls of the outbound callback, in order
    wpLog,        \* history: the writePacket calls, in order
    pktOps,       \* the number of reads and writePacket calls so far
    dnsScan,      \* the ConcurrentHashMap::forEach in progress on dnsMap
    ipScan,       \* the range-for over knownIPAddresses in progress
    putLast,      \* the last ConcurrentHashMap::put: arguments, old value, result
    scanOps,      \* calls made so far against a running scan
    cbMutex,      \* TUNInterface::callBackMutex: the thread that holds it
    cbFn,         \* TUNInterface::callBack: the function in the slot, 0 for none
    cstack,       \* per thread: its calls of sendOutgoingPacket and
                  \* setOutgoingPacketCallBack in progress, innermost last
    cbOps         \* such calls made so far

dequeVars == <<dq, qpc, qarg, qret, opsLeft>>

writeVars == <<epc, nextPkt, hist, fdLog, enqLog, fails, fdCalls>>

lifeVars == <<tunFD, fdOpen, base, readEvent, writeEvent, bases, readEv, writeEv,
              rpc, rbase, startsBegun, startsDone, stopsDone, stopSeen, closes>>

ipVars == <<knownIPAddresses, ipc, iparg, ipOps>>

dnsVars == <<dnsMap, dnsLast, dnsOnlyAdds>>

pktVars == <<callBack, readLog, cbLog, wpLog, pktOps>>

slotVars == <<cbMutex, cbFn, cstack, cbOps>>

scanVars == <<dnsScan, ipScan, putLast, scanOps, slotVars>>

vars == <<crashed, dequeVars, writeVars, lifeVars, ipVars, dnsVars, pktVars, scanVars>>

-----------------------------------------------------------------------------
(* Bounds of the model.                                                    *)

\* capacity of the deque that SpecDeque drives
Capacity == 1

\* number of deque calls the clients of SpecDeque make in all
MaxOps == 4

\* number of distinct values the clients of SpecDeque insert
NumVals == 2

-----------------------------------------------------------------------------
(* Threads.                                                                *)

Reactor == "reactor"

Callers == {"t1", "t2"}

Threads == Callers \cup {Reactor}

-----------------------------------------------------------------------------
(* Optionals and pointers.  std::optional<T> and a shared_ptr to one are a *)
(* sequence of length at most one; a node pointer is an index into the     *)
(* node sequence, 0 for std::nullopt.                                      *)

None == <<>>

Some(v) == <<v>>

HasValue(o) == Len(o) = 1

Value(o) == o[1]

NullNode == 0

\* what a read through a null shared_ptr may yield when it does not trap
Garbage == <<-1>>

\* the outcomes of undefined behaviour: the process traps, or the read
\* yields a disengaged optional, or it yields bytes that were never queued
UBOutcomes == {"crash", "absent", "garbage"}

Range(s) == {s[i] : i \in 1..Len(s)}

IndexOf(s, x) == CHOOSE i \in 1..Len(s) : s[i] = x

-----------------------------------------------------------------------------
(* LinkedBlockingDeque: the linked structure.                              *)

\* Node__class: item is a shared_ptr<optional<T>> (None when null), next an
\* optional node pointer
NewNode(item, next) == [item |-> item, next |-> next]

\* the nodes reached from p by next, stopping at a node already seen
RECURSIVE Chain(_, _, _)
Chain(nodes, p, seen) ==
    IF p = NullNode \/ p \in seen
    THEN <<>>
    ELSE <<p>> \o Chain(nodes, nodes[p].next, seen \cup {p})

\* Nodes are reference counted: a node no pointer reaches is freed.  The
\* live nodes are renumbered, those reached from head first, then those
\* reached from last only.
Collect(q) ==
    LET hc == Chain(q.nodes, q.head, {})
        lc == Chain(q.nodes, q.last, Range(hc))
        order == hc \o lc
        idx(p) == IF p = NullNode THEN NullNode ELSE IndexOf(order, p)
    IN [q EXCEPT
          !.nodes = [i \in 1..Len(order) |->
                        NewNode(q.nodes[order[i]].item, idx(q.nodes[order[i]].next))],
          !.head = idx(q.head),
          !.last = idx(q.last)]

\* LinkedBlockingDeque(capacity): both pointers on one empty node
NewDeque(capacity) ==
    [capacity |-> capacity,
     count    |-> 0,
     nFilled  |-> 0,
     nHoles   |-> capacity,
     head     |-> 1,
     last     |-> 1,
     nodes    |-> <<NewNode(None, NullNode)>>]

size(q) == q.count

empty(q) == size(q) = 0

remainingCapacity(q) == q.capacity - q.count

\* a faulty enqueue: the node is linked right behind the head node
enqueue_atFront(q, e) ==
    LET n == Len(q.nodes) + 1
        after == IF q.head # NullNode THEN q.nodes[q.head].next ELSE NullNode
        added == Append(q.nodes, NewNode(Some(e), after))
        linked == IF q.head # NullNode
                  THEN [added EXCEPT ![q.head].next = n]
                  ELSE added
    IN Collect([q EXCEPT !.nodes = linked,
                         !.last = IF after = NullNode THEN n ELSE q.last,
                         !.count = q.count + 1])

\* enqueue(node): link the node after last
enqueue(q, e) ==
    LET n == Len(q.nodes) + 1
        added == Append(q.nodes, NewNode(Some(e), NullNode))
        linked == IF q.last # NullNode
                  THEN [added EXCEPT ![q.last].next = n]
                  ELSE added
    IN Collect([q EXCEPT !.nodes = linked, !.last = n, !.count = q.count + 1])

\* the locked block of putFirst(e): the new node becomes head
linkFirst(q, e) ==
    LET n == Len(q.nodes) + 1
        added == Append(q.nodes,
                        NewNode(Some(e), IF q.head # NullNode THEN q.head ELSE NullNode))
    IN Collect([q EXCEPT !.nodes = added, !.head = n, !.count = q.count + 1])

\* the node dequeue() reads its result from
dequeueFirst(q) == IF q.head # NullNode THEN q.nodes[q.head].next ELSE NullNode

\* dequeue() dereferences first->item: undefined when that pointer is null
dequeueUndefined(q) ==
    /\ dequeueFirst(q) # NullNode
    /\ q.nodes[dequeueFirst(q)].item = None

\* what dequeue() returns; ub is the outcome of the null dereference, if any
dequeueResult(q, ub) ==
    LET first == dequeueFirst(q)
    IN IF first = NullNode THEN None
       ELSE IF q.nodes[first].item # None THEN q.nodes[first].item
       ELSE IF ub = "garbage" THEN Some(Garbage)
       ELSE None

\* the deque dequeue() leaves: head moves to first, whose item is cleared
dequeue(q) ==
    LET first == dequeueFirst(q)
        cleared == IF first # NullNode
                   THEN [q.nodes EXCEPT ![first].item = None]
                   ELSE q.nodes
    IN Collect([q EXCEPT !.nodes = cleared, !.head = first, !.count = q.count - 1])

\* the values forEach visits: the items held by the nodes reached from head
Items(q) ==
    LET hc == Chain(q.nodes, q.head, {})
        held == SelectSeq(hc, LAMBDA p : q.nodes[p].item # None)
    IN [i \in 1..Len(held) |-> Value(q.nodes[held[i]].item)]

-----------------------------------------------------------------------------
(* LinkedBlockingDeque: the public calls, one action per step a thread     *)
(* takes between two points where another thread may run.  Semaphore::wait *)
(* and Semaphore::signal are atomic (each holds the semaphore's own lock). *)

Idle(t) == qpc[t] = "idle"

Returned(t) == qpc[t] = "done"

\* a thread enters a deque call
Enter(t, op, e) ==
    /\ qpc' = [qpc EXCEPT ![t] = op]
    /\ qarg' = [qarg EXCEPT ![t] = e]
    /\ qret' = [qret EXCEPT ![t] = None]

\* a thread leaves the call it has finished
Leave(t) == qpc' = [qpc EXCEPT ![t] = "idle"]

\* put / putFirst: nHoles.wait()
WaitHoles(t) ==
    /\ ~crashed
    /\ qpc[t] \in {"put_wait", "putFirst_wait"}
    /\ dq.nHoles > 0
    /\ dq' = [dq EXCEPT !.nHoles = dq.nHoles - 1]
    /\ qpc' = [qpc EXCEPT ![t] = IF qpc[t] = "put_wait" THEN "put_link" ELSE "putFirst_link"]
    /\ UNCHANGED <<qarg, qret, crashed>>

\* put: enqueue(node) under the write lock
PutLink(t) ==
    /\ ~crashed
    /\ qpc[t] = "put_link"
    /\ dq' = enqueue(dq, qarg[t])
    /\ qpc' = [qpc EXCEPT ![t] = "put_signal"]
    /\ UNCHANGED <<qarg, qret, crashed>>

\* putFirst: the head insert under the write lock
PutFirstLink(t) ==
    /\ ~crashed
    /\ qpc[t] = "putFirst_link"
    /\ dq' = linkFirst(dq, qarg[t])
    /\ qpc' = [qpc EXCEPT ![t] = "put_signal"]
    /\ UNCHANGED <<qarg, qret, crashed>>

\* put / putFirst / offer: nFilled.signal()
SignalFilled(t) ==
    /\ ~crashed
    /\ qpc[t] = "put_signal"
    /\ dq' = [dq EXCEPT !.nFilled = dq.nFilled + 1]
    /\ qpc' = [qpc EXCEPT ![t] = "done"]
    /\ UNCHANGED <<qarg, qret, crashed>>

\* offer: the capacity test and enqueue under the write lock
OfferLink(t) ==
    /\ ~crashed
    /\ qpc[t] = "offer_link"
    /\ IF remainingCapacity(dq) > 0
       THEN /\ dq' = enqueue(dq, qarg[t])
            /\ qret' = [qret EXCEPT ![t] = Some(TRUE)]
            /\ qpc' = [qpc EXCEPT ![t] = "put_signal"]
       ELSE /\ qret' = [qret EXCEPT ![t] = Some(FALSE)]
            /\ qpc' = [qpc EXCEPT ![t] = "done"]
            /\ UNCHANGED dq
    /\ UNCHANGED <<qarg, crashed>>

\* take: nFilled.wait()
WaitFilled(t) ==
    /\ ~crashed
    /\ qpc[t] = "take_wait"
    /\ dq.nFilled > 0
    /\ dq' = [dq EXCEPT !.nFilled = dq.nFilled - 1]
    /\ qpc' = [qpc EXCEPT ![t] = "take_unlink"]
    /\ UNCHANGED <<qarg, qret, crashed>>

\* take: x = dequeue() under the write lock
TakeUnlink(t) ==
    /\ ~crashed
    /\ qpc[t] = "take_unlink"
    /\ \E ub \in UBOutcomes :
         IF dequeueUndefined(dq) /\ ub = "crash"
         THEN /\ crashed' = TRUE
              /\ UNCHANGED <<dq, qpc, qret>>
         ELSE /\ (dequeueUndefined(dq) \/ ub = "absent")
              /\ qret' = [qret EXCEPT ![t] = dequeueResult(dq, ub)]
              /\ dq' = dequeue(dq)
              /\ qpc' = [qpc EXCEPT ![t] = "take_signal"]
              /\ UNCHANGED crashed
    /\ UNCHANGED qarg

\* take: nHoles.signal(), whatever dequeue() returned
TakeSignal(t) ==
    /\ ~crashed
    /\ qpc[t] = "take_signal"
    /\ dq' = [dq EXCEPT !.nHoles = dq.nHoles + 1]
    /\ qpc' = [qpc EXCEPT ![t] = "done"]
    /\ UNCHANGED <<qarg, qret, crashed>>

\* poll: if (_count > 0) x = dequeue(), under the write lock
PollUnlink(t) ==
    /\ ~crashed
    /\ qpc[t] = "poll_unlink"
    /\ IF dq.count > 0
       THEN \E ub \in UBOutcomes :
              IF dequeueUndefined(dq) /\ ub = "crash"
              THEN /\ crashed' = TRUE
                   /\ UNCHANGED <<dq, qpc, qret>>
              ELSE /\ (dequeueUndefined(dq) \/ ub = "absent")
                   /\ qret' = [qret EXCEPT ![t] = dequeueResult(dq, ub)]
                   /\ dq' = dequeue(dq)
                   /\ qpc' = [qpc EXCEPT ![t] = "poll_signal"]
                   /\ UNCHANGED crashed
       ELSE /\ qpc' = [qpc EXCEPT ![t] = "poll_signal"]
            /\ UNCHANGED <<dq, qret, crashed>>
    /\ UNCHANGED qarg

\* poll: nHoles.signal() if a value was returned
PollSignal(t) ==
    /\ ~crashed
    /\ qpc[t] = "poll_signal"
    /\ dq' = IF HasValue(qret[t]) THEN [dq EXCEPT !.nHoles = dq.nHoles + 1] ELSE dq
    /\ qpc' = [qpc EXCEPT ![t] = "done"]
    /\ UNCHANGED <<qarg, qret, crashed>>

-----------------------------------------------------------------------------
(* Initial values of the parts a specification does not drive.             *)

NullPtr == 0

\* an indeterminate pointer that happens not to be null
WildPtr == -1

\* number of start() calls the model follows (one reactor thread each)
MaxStarts == 2

Reactors == 1..MaxStarts

\* the descriptor handed to the constructor
InitialFD == 5

\* std::numeric_limits<int>::max(), the capacity of a default-constructed deque
IntMax == 2147483647

\* an event base: not made yet, live or freed; whether event_base_loop is
\* running on it; its event_break flag
NoBase == [st |-> "none", running |-> FALSE, brk |-> FALSE]

\* an event: not made yet, made ("new"), pending ("added") or freed; its base
NoEvent == [st |-> "none", base |-> 0]

MadeEvent(st, b) == [st |-> st, base |-> b]

DequeIdle ==
    /\ qpc = [t \in Threads |-> "idle"]
    /\ qarg = [t \in Threads |-> None]
    /\ qret = [t \in Threads |-> None]
    /\ opsLeft = 0

WriteIdle ==
    /\ epc = [t \in Threads |-> "idle"]
    /\ nextPkt = 1
    /\ hist = <<>>
    /\ fdLog = <<>>
    /\ enqLog = <<>>
    /\ fails = 0
    /\ fdCalls = {}

\* no forEach running: pc is where the scan stands, i the next bucket (or
\* element) to copy, tmp the copy made so far, src the storage read if it
\* is no longer the container's, seen the contents the container has had
\* since the scan began
NoScan == [pc |-> "idle", i |-> 0, tmp |-> <<>>, src |-> <<>>, seen |-> {}]

\* no range-for running: cap is the capacity of the vector; i and end are
\* the iterators (indexes into the storage they were taken from), mem is
\* that storage, slot by slot, freed says that the vector has left it,
\* shifted is the lowest slot an erase has moved elements into, read the
\* elements the loop has read, seen the lists knownIPAddresses has held
\* since the loop began
NoIPScan == [pc |-> "idle", cap |-> 0, i |-> 0, end |-> 0, target |-> 0, mem |-> <<>>,
             freed |-> FALSE, shifted |-> 0, read |-> <<>>, bad |-> FALSE,
             found |-> FALSE, seen |-> {}]

\* callBackMutex when no thread holds it
NoThread == "none"

\* no callback installed, nothing read, nothing passed to writePacket
PktIdle ==
    /\ callBack = FALSE
    /\ readLog = <<>>
    /\ cbLog = <<>>
    /\ wpLog = <<>>
    /\ pktOps = 0

\* no scan of a configuration store is running
ScanIdle ==
    /\ dnsScan = NoScan
    /\ ipScan = NoIPScan
    /\ putLast = <<>>
    /\ cbMutex = NoThread
    /\ cbFn = 0
    /\ cstack = [t \in Threads |-> <<>>]
    /\ cbOps = 0
    /\ scanOps = 0

\* the engine as constructed: tunFD set, the three pointers indeterminate
LifeConstructed ==
    /\ tunFD = InitialFD
    /\ fdOpen = TRUE
    /\ base \in {NullPtr, WildPtr}
    /\ readEvent \in {NullPtr, WildPtr}
    /\ writeEvent \in {NullPtr, WildPtr}
    /\ bases = [i \in Reactors |-> NoBase]
    /\ readEv = [i \in Reactors |-> NoEvent]
    /\ writeEv = [i \in Reactors |-> NoEvent]
    /\ rpc = [i \in Reactors |-> "none"]
    /\ rbase = [i \in Reactors |-> NullPtr]
    /\ startsBegun = 0
    /\ startsDone = 0
    /\ stopsDone = 0
    /\ stopSeen = {}
    /\ closes = 0

\* a fixed constructed engine, for the specifications that never start it
LifeIdle ==
    /\ LifeConstructed
    /\ base = NullPtr
    /\ readEvent = NullPtr
    /\ writeEvent = NullPtr

\* address strings and hostname strings, numbered
NumAddrs == 2

NumHosts == 2

Addrs == 1..NumAddrs

Hosts == 1..NumHosts

IPIdle ==
    /\ knownIPAddresses = <<>>
    /\ ipc = [t \in Threads |-> "idle"]
    /\ iparg = [t \in Threads |-> <<>>]
    /\ ipOps = 0

\* ConcurrentHashMap(): no key has a value; a key's value is an optional list
EmptyMap == [a \in Addrs |-> None]

DNSIdle ==
    /\ dnsMap = EmptyMap
    /\ dnsLast = <<>>
    /\ dnsOnlyAdds = TRUE

-----------------------------------------------------------------------------
(* SpecDeque: client threads calling put, putFirst, offer, take and poll   *)
(* on one LinkedBlockingDeque(Capacity), in any interleaving.              *)

Vals == {<<v>> : v \in 1..NumVals}

DequeCalls == {"put_wait", "putFirst_wait", "offer_link", "take_wait", "poll_unlink"}

TakesArgument(op) == op \in {"put_wait", "putFirst_wait", "offer_link"}

NotDeque == <<writeVars, lifeVars, ipVars, dnsVars, pktVars, scanVars>>

InitDeque ==
    /\ crashed = FALSE
    /\ dq = NewDeque(Capacity)
    /\ qpc = [t \in Threads |-> "idle"]
    /\ qarg = [t \in Threads |-> None]
    /\ qret = [t \in Threads |-> None]
    /\ opsLeft = MaxOps
    /\ WriteIdle /\ LifeIdle /\ IPIdle /\ DNSIdle /\ PktIdle /\ ScanIdle

ClientCall(t) ==
    /\ ~crashed
    /\ Idle(t)
    /\ opsLeft > 0
    /\ \E op \in DequeCalls :
         \E e \in IF TakesArgument(op) THEN Vals ELSE {None} : Enter(t, op, e)
    /\ opsLeft' = opsLeft - 1
    /\ UNCHANGED <<dq, crashed, NotDeque>>

ClientReturn(t) ==
    /\ ~crashed
    /\ Returned(t)
    /\ Leave(t)
    /\ UNCHANGED <<dq, qarg, qret, opsLeft, crashed, NotDeque>>

ClientWaitHoles(t) == WaitHoles(t) /\ UNCHANGED <<opsLeft, NotDeque>>

ClientPutLink(t) == PutLink(t) /\ UNCHANGED <<opsLeft, NotDeque>>

ClientPutFirstLink(t) == PutFirstLink(t) /\ UNCHANGED <<opsLeft, NotDeque>>

ClientSignalFilled(t) == SignalFilled(t) /\ UNCHANGED <<opsLeft, NotDeque>>

ClientOfferLink(t) == OfferLink(t) /\ UNCHANGED <<opsLeft, NotDeque>>

ClientWaitFilled(t) == WaitFilled(t) /\ UNCHANGED <<opsLeft, NotDeque>>

ClientTakeUnlink(t) == TakeUnlink(t) /\ UNCHANGED <<opsLeft, NotDeque>>

ClientTakeSignal(t) == TakeSignal(t) /\ UNCHANGED <<opsLeft, NotDeque>>

ClientPollUnlink(t) == PollUnlink(t) /\ UNCHANGED <<opsLeft, NotDeque>>

ClientPollSignal(t) == PollSignal(t) /\ UNCHANGED <<opsLeft, NotDeque>>

NextDeque ==
    \E t \in Callers :
        \/ ClientCall(t)
        \/ ClientReturn(t)
        \/ ClientWaitHoles(t)
        \/ ClientPutLink(t)
        \/ ClientPutFirstLink(t)
        \/ ClientSignalFilled(t)
        \/ ClientOfferLink(t)
        \/ ClientWaitFilled(t)
        \/ ClientTakeUnlink(t)
        \/ ClientTakeSignal(t)
        \/ ClientPollUnlink(t)
        \/ ClientPollSignal(t)

SpecDeque == InitDeque /\ [][NextDeque]_vars

\* C3: a LinkedBlockingDeque constructed with capacity C never holds more
\* than C entries (size() <= capacity), under any interleaving of put,
\* putFirst, offer, take and poll.
C3_CapacityBound == size(dq) <= dq.capacity

\* no deque call is in progress: every client thread is outside the deque
Quiescent == \A t \in Callers : Idle(t) \/ Returned(t)

\* C37: semaphore accounting.  In every quiescent state reached by put,
\* putFirst, offer, take and poll, nFilled.count equals size() and
\* nHoles.count equals capacity - size(); and take() never reaches
\* dequeue() on an empty list.
C37_SemaphoreAccounting ==
    /\ (Quiescent /\ ~crashed) =>
          /\ dq.nFilled = size(dq)
          /\ dq.nHoles = dq.capacity - size(dq)
    /\ \A t \in Callers : qpc[t] = "take_unlink" => dequeueFirst(dq) # NullNode

-----------------------------------------------------------------------------
(* Spec: the write path.  Caller threads run enqueueWrite; the reactor     *)
(* thread, dispatching after one successful start(), runs onWrite whenever *)
(* the write event is pending.  write() on the tun fd succeeds, fails with *)
(* EAGAIN, or fails with another error.                                    *)

\* number of enqueueWrite calls the callers make in all
MaxPackets == 3

\* number of write() calls that fail
MaxFails == 2

\* the reactor thread that runs the handlers
Dispatcher == 1

\* the 4-byte utun header enqueueWrite prepends
TunHeader == <<0, 0, 0, 2>>

Frame(packet) == TunHeader \o packet

\* the packet the k-th enqueueWrite call may pass: empty, or one of its own
CallPackets(k) == {<<>>, <<k>>}

WriteResults == {"ok", "EAGAIN", "error"}

\* a read() or write() on the tun fd, and the thread that made it
FdCall(t, op) == [thread |-> t, op |-> op]

TakeEvent(x) == [kind |-> "take", pkt |-> x, res |-> "-"]

WriteEvent(x, res) == [kind |-> "write", pkt |-> x, res |-> res]

IsPrefix(s, t) == Len(s) <= Len(t) /\ \A i \in 1..Len(s) : s[i] = t[i]

\* event_pending(ev, EV_WRITE)
event_pending(ev) == writeEv[ev].st = "added"

\* a pointer to an event that event_new returned and event_free has not freed
ValidWriteEvent(ev) == ev \in Reactors /\ writeEv[ev].st \in {"new", "added"}

NotWrite == <<opsLeft, ipVars, dnsVars, pktVars, scanVars>>

LifeButWriteEv == <<tunFD, fdOpen, base, readEvent, writeEvent, bases, readEv,
                    rpc, rbase, startsBegun, startsDone, stopsDone, stopSeen, closes>>

\* one start() has returned and its reactor thread has reached dispatch
LifeDispatching ==
    /\ tunFD = InitialFD
    /\ fdOpen = TRUE
    /\ base = Dispatcher
    /\ readEvent = Dispatcher
    /\ writeEvent = Dispatcher
    /\ bases = [i \in Reactors |->
                  IF i = Dispatcher
                  THEN [st |-> "live", running |-> TRUE, brk |-> FALSE]
                  ELSE NoBase]
    /\ readEv = [i \in Reactors |->
                   IF i = Dispatcher THEN MadeEvent("added", Dispatcher) ELSE NoEvent]
    /\ writeEv = [i \in Reactors |->
                    IF i = Dispatcher THEN MadeEvent("new", Dispatcher) ELSE NoEvent]
    /\ rpc = [i \in Reactors |-> IF i = Dispatcher THEN "dispatch" ELSE "none"]
    /\ rbase = [i \in Reactors |-> IF i = Dispatcher THEN Dispatcher ELSE NullPtr]
    /\ startsBegun = 1
    /\ startsDone = 1
    /\ stopsDone = 0
    /\ stopSeen = {}
    /\ closes = 0

Init ==
    /\ crashed = FALSE
    /\ dq = NewDeque(IntMax)
    /\ DequeIdle /\ WriteIdle /\ LifeDispatching /\ IPIdle /\ DNSIdle /\ PktIdle /\ ScanIdle

\* enqueueWrite(packet), up to the call of writeQueue.put
EwCall(t) ==
    /\ ~crashed
    /\ epc[t] = "idle"
    /\ nextPkt <= MaxPackets
    /\ \E packet \in CallPackets(nextPkt) :
         IF packet = <<>>
         THEN UNCHANGED <<epc, qpc, qarg, qret>>
         ELSE /\ Enter(t, "put_wait", Frame(packet))
              /\ epc' = [epc EXCEPT ![t] = "ew_put"]
    /\ nextPkt' = nextPkt + 1
    /\ UNCHANGED <<crashed, dq, hist, fdLog, enqLog, fails, fdCalls, lifeVars, NotWrite>>

\* put / putFirst: nHoles.wait()
EwWaitHoles(t) ==
    /\ WaitHoles(t)
    /\ UNCHANGED <<writeVars, lifeVars, NotWrite>>

\* put: the enqueue under the lock; this is the order of the queue
EwPutLink(t) ==
    /\ PutLink(t)
    /\ enqLog' = Append(enqLog, qarg[t])
    /\ UNCHANGED <<epc, nextPkt, hist, fdLog, fails, fdCalls, lifeVars, NotWrite>>

EwSignalFilled(t) ==
    /\ SignalFilled(t)
    /\ UNCHANGED <<writeVars, lifeVars, NotWrite>>

\* enqueueWrite after put: writeEvent && !event_pending(writeEvent, EV_WRITE)
EwCheck(t) ==
    /\ ~crashed
    /\ epc[t] = "ew_put"
    /\ Returned(t)
    /\ Leave(t)
    /\ IF writeEvent = NullPtr
       THEN /\ epc' = [epc EXCEPT ![t] = "idle"]
            /\ UNCHANGED crashed
       ELSE IF ~ValidWriteEvent(writeEvent)
       THEN /\ crashed' = TRUE
            /\ UNCHANGED epc
       ELSE /\ epc' = [epc EXCEPT ![t] = IF event_pending(writeEvent)
                                         THEN "idle" ELSE "ew_add"]
            /\ UNCHANGED crashed
    /\ UNCHANGED <<dq, qarg, qret, nextPkt, hist, fdLog, enqLog, fails, fdCalls, lifeVars, NotWrite>>

\* an enqueueWrite that, after arming the event, writes to the fd itself
EwAdd_writing(t) ==
    /\ ~crashed
    /\ epc[t] = "ew_add"
    /\ IF ValidWriteEvent(writeEvent)
       THEN /\ writeEv' = [writeEv EXCEPT ![writeEvent].st = "added"]
            /\ epc' = [epc EXCEPT ![t] = "idle"]
            /\ UNCHANGED crashed
       ELSE /\ crashed' = TRUE
            /\ UNCHANGED <<writeEv, epc>>
    /\ fdCalls' = fdCalls \cup {FdCall(t, "write")}
    /\ UNCHANGED <<dequeVars, nextPkt, hist, fdLog, enqLog, fails, LifeButWriteEv,
                   ipVars, dnsVars, pktVars, scanVars>>

\* enqueueWrite: event_add(writeEvent, nullptr)
EwAdd(t) ==
    /\ ~crashed
    /\ epc[t] = "ew_add"
    /\ IF ValidWriteEvent(writeEvent)
       THEN /\ writeEv' = [writeEv EXCEPT ![writeEvent].st = "added"]
            /\ epc' = [epc EXCEPT ![t] = "idle"]
            /\ UNCHANGED crashed
       ELSE /\ crashed' = TRUE
            /\ UNCHANGED <<writeEv, epc>>
    /\ UNCHANGED <<dequeVars, nextPkt, hist, fdLog, enqLog, fails, fdCalls, LifeButWriteEv,
                   ipVars, dnsVars, pktVars, scanVars>>

\* the reactor, in event_base_dispatch, finds the write event pending and the
\* fd writable, and calls onWrite
OnWrite ==
    /\ ~crashed
    /\ rpc[Dispatcher] = "dispatch"
    /\ epc[Reactor] = "idle"
    /\ \E ev \in Reactors :
         writeEv[ev].st = "added" /\ writeEv[ev].base = rbase[Dispatcher]
    /\ epc' = [epc EXCEPT ![Reactor] = "ow_loop"]
    /\ UNCHANGED <<crashed, dequeVars, nextPkt, hist, fdLog, enqLog, fails, fdCalls, lifeVars,
                   ipVars, dnsVars, pktVars, scanVars>>

\* onWrite: while (!writeQueue.empty()) { optPacket = writeQueue.take(); ...
OwLoop ==
    /\ ~crashed
    /\ epc[Reactor] = "ow_loop"
    /\ IF ~empty(dq)
       THEN /\ Enter(Reactor, "take_wait", None)
            /\ epc' = [epc EXCEPT ![Reactor] = "ow_take"]
       ELSE /\ epc' = [epc EXCEPT ![Reactor] = "ow_end"]
            /\ UNCHANGED <<qpc, qarg, qret>>
    /\ UNCHANGED <<crashed, dq, nextPkt, hist, fdLog, enqLog, fails, fdCalls, lifeVars, NotWrite>>

OwWaitFilled ==
    /\ WaitFilled(Reactor)
    /\ UNCHANGED <<writeVars, lifeVars, NotWrite>>

OwTakeUnlink ==
    /\ TakeUnlink(Reactor)
    /\ UNCHANGED <<writeVars, lifeVars, NotWrite>>

OwTakeSignal ==
    /\ TakeSignal(Reactor)
    /\ UNCHANGED <<writeVars, lifeVars, NotWrite>>

\* take() returned an optional without a value: the loop goes round
OwTakeAbsent ==
    /\ ~crashed
    /\ epc[Reactor] = "ow_take"
    /\ Returned(Reactor)
    /\ ~HasValue(qret[Reactor])
    /\ Leave(Reactor)
    /\ hist' = Append(hist, TakeEvent(None))
    /\ epc' = [epc EXCEPT ![Reactor] = "ow_loop"]
    /\ UNCHANGED <<crashed, dq, qarg, qret, nextPkt, fdLog, enqLog, fails, fdCalls, lifeVars, NotWrite>>

\* write(fd, packet) returned >= 0
OwWriteOk ==
    /\ ~crashed
    /\ epc[Reactor] = "ow_take"
    /\ Returned(Reactor)
    /\ HasValue(qret[Reactor])
    /\ Leave(Reactor)
    /\ hist' = hist \o <<TakeEvent(qret[Reactor]), WriteEvent(qret[Reactor], "ok")>>
    /\ fdLog' = Append(fdLog, Value(qret[Reactor]))
    /\ fdCalls' = fdCalls \cup {FdCall(Reactor, "write")}
    /\ epc' = [epc EXCEPT ![Reactor] = "ow_loop"]
    /\ UNCHANGED <<crashed, dq, qarg, qret, nextPkt, enqLog, fails, lifeVars, NotWrite>>

\* write() failed with EAGAIN / EWOULDBLOCK: writeQueue.putFirst(packet); break
OwWriteAgain ==
    /\ ~crashed
    /\ epc[Reactor] = "ow_take"
    /\ Returned(Reactor)
    /\ HasValue(qret[Reactor])
    /\ fails < MaxFails
    /\ Enter(Reactor, "putFirst_wait", Value(qret[Reactor]))
    /\ hist' = hist \o <<TakeEvent(qret[Reactor]), WriteEvent(qret[Reactor], "EAGAIN")>>
    /\ fails' = fails + 1
    /\ fdCalls' = fdCalls \cup {FdCall(Reactor, "write")}
    /\ epc' = [epc EXCEPT ![Reactor] = "ow_putFirst"]
    /\ UNCHANGED <<crashed, dq, nextPkt, fdLog, enqLog, lifeVars, NotWrite>>

\* a handler that puts the packet back after any failed write()
OwWriteError_reinserting ==
    /\ ~crashed
    /\ epc[Reactor] = "ow_take"
    /\ Returned(Reactor)
    /\ HasValue(qret[Reactor])
    /\ fails < MaxFails
    /\ Enter(Reactor, "putFirst_wait", Value(qret[Reactor]))
    /\ hist' = hist \o <<TakeEvent(qret[Reactor]), WriteEvent(qret[Reactor], "error")>>
    /\ fails' = fails + 1
    /\ fdCalls' = fdCalls \cup {FdCall(Reactor, "write")}
    /\ epc' = [epc EXCEPT ![Reactor] = "ow_putFirst"]
    /\ UNCHANGED <<crashed, dq, nextPkt, fdLog, enqLog, lifeVars, NotWrite>>

\* write() failed with another errno: logged, the packet is gone
OwWriteError ==
    /\ ~crashed
    /\ epc[Reactor] = "ow_take"
    /\ Returned(Reactor)
    /\ HasValue(qret[Reactor])
    /\ fails < MaxFails
    /\ Leave(Reactor)
    /\ hist' = hist \o <<TakeEvent(qret[Reactor]), WriteEvent(qret[Reactor], "error")>>
    /\ fails' = fails + 1
    /\ fdCalls' = fdCalls \cup {FdCall(Reactor, "write")}
    /\ epc' = [epc EXCEPT ![Reactor] = "ow_loop"]
    /\ UNCHANGED <<crashed, dq, qarg, qret, nextPkt, fdLog, enqLog, lifeVars, NotWrite>>

OwPutFirstLink ==
    /\ PutFirstLink(Reactor)
    /\ UNCHANGED <<writeVars, lifeVars, NotWrite>>

\* putFirst returned: break
OwBreak ==
    /\ ~crashed
    /\ epc[Reactor] = "ow_putFirst"
    /\ Returned(Reactor)
    /\ Leave(Reactor)
    /\ epc' = [epc EXCEPT ![Reactor] = "ow_end"]
    /\ UNCHANGED <<crashed, dq, qarg, qret, nextPkt, hist, fdLog, enqLog, fails, fdCalls, lifeVars,
                   NotWrite>>

\* an onWrite that returns without removing the write event
OwDel_skipping ==
    /\ ~crashed
    /\ epc[Reactor] = "ow_del"
    /\ epc' = [epc EXCEPT ![Reactor] = "idle"]
    /\ UNCHANGED <<crashed, writeEv, dequeVars, nextPkt, hist, fdLog, enqLog, fails, fdCalls,
                   LifeButWriteEv, ipVars, dnsVars, pktVars, scanVars>>

\* onWrite: if (writeQueue.empty() && writeEvent), the test
OwEnd ==
    /\ ~crashed
    /\ epc[Reactor] = "ow_end"
    /\ epc' = [epc EXCEPT ![Reactor] = IF empty(dq) /\ writeEvent # NullPtr
                                       THEN "ow_del" ELSE "idle"]
    /\ UNCHANGED <<crashed, writeEv, dequeVars, nextPkt, hist, fdLog, enqLog, fails, fdCalls,
                   LifeButWriteEv, ipVars, dnsVars, pktVars, scanVars>>

\* onWrite: event_del(writeEvent), a step after the test
OwDel ==
    /\ ~crashed
    /\ epc[Reactor] = "ow_del"
    /\ IF ValidWriteEvent(writeEvent)
       THEN /\ writeEv' = [writeEv EXCEPT ![writeEvent].st = "new"]
            /\ epc' = [epc EXCEPT ![Reactor] = "idle"]
            /\ UNCHANGED crashed
       ELSE /\ crashed' = TRUE
            /\ UNCHANGED <<writeEv, epc>>
    /\ UNCHANGED <<dequeVars, nextPkt, hist, fdLog, enqLog, fails, fdCalls, LifeButWriteEv,
                   ipVars, dnsVars, pktVars, scanVars>>

Next ==
    \/ \E t \in Callers :
         \/ EwCall(t)
         \/ EwPutLink(t)
         \/ EwCheck(t)
         \/ EwAdd(t)
    \/ \E t \in Threads :
         \/ EwWaitHoles(t)
         \/ EwSignalFilled(t)
    \/ OnWrite
    \/ OwLoop
    \/ OwWaitFilled
    \/ OwTakeUnlink
    \/ OwTakeSignal
    \/ OwTakeAbsent
    \/ OwWriteOk
    \/ OwWriteAgain
    \/ OwWriteError
    \/ OwPutFirstLink
    \/ OwBreak
    \/ OwEnd
    \/ OwDel

Spec == Init /\ [][Next]_vars

\* C1: a packet whose write() failed with EAGAIN is reinserted at the head:
\* it is the packet the handler takes next, and the packet of the next
\* write(), and the take that follows the reinsert does not fault.
C1_RetryPreservation ==
    /\ ~crashed
    /\ \A i \in 1..Len(hist) :
         (hist[i].kind = "write" /\ hist[i].res = "EAGAIN" /\ i < Len(hist))
             => /\ hist[i + 1] = TakeEvent(hist[i].pkt)
                /\ i + 2 <= Len(hist)
                /\ hist[i + 2].kind = "write"
                /\ hist[i + 2].pkt = hist[i].pkt

\* C2: while no write() has failed, the buffers written to the fd are a
\* prefix of the buffers in the order enqueueWrite appended them to the queue.
C2_QueueFIFO == (fails = 0) => IsPrefix(fdLog, enqLog)

\* no write() has failed, two buffers are on the fd and a third was
\* appended to the queue behind them
C2_Witness ==
    /\ fails = 0
    /\ Len(fdLog) >= 2
    /\ Len(enqLog) > Len(fdLog)

-----------------------------------------------------------------------------
(* SpecLife: start() and stop() on caller threads, and the lambda that     *)
(* start() hands to each reactor thread: event_base_new, event_new and     *)
(* event_add for the read event, event_new for the write event,            *)
(* event_base_dispatch, then the clean-up.  The lambda captures this, so   *)
(* base, readEvent, writeEvent and tunFD are the engine's members, shared  *)
(* by every reactor thread.                                                *)

\* number of stop() calls
MaxStops == 2

NotLife == <<dequeVars, writeVars, ipVars, dnsVars, pktVars, scanVars>>

LiveBase(b) == b \in Reactors /\ bases[b].st = "live"

LiveRead(e) == e \in Reactors /\ readEv[e].st \in {"new", "added"}

LiveWrite(e) == e \in Reactors /\ writeEv[e].st \in {"new", "added"}

\* event_base_loop returns when no event is pending on its base
HasEvents(b) ==
    \E e \in Reactors :
        \/ readEv[e].st = "added" /\ readEv[e].base = b
        \/ writeEv[e].st = "added" /\ writeEv[e].base = b

\* a reactor thread that is between its creation and its exit
Running(i) == rpc[i] \notin {"none", "failed", "exited"}

InitLife ==
    /\ crashed = FALSE
    /\ dq = NewDeque(IntMax)
    /\ DequeIdle /\ WriteIdle /\ LifeConstructed /\ IPIdle /\ DNSIdle /\ PktIdle /\ ScanIdle

\* start(): new Thread(...); thread->start() creates the thread
StartSpawn ==
    /\ ~crashed
    /\ startsBegun = startsDone
    /\ startsBegun < MaxStarts
    /\ startsBegun' = startsBegun + 1
    /\ rpc' = [rpc EXCEPT ![startsBegun + 1] = "setup"]
    /\ UNCHANGED <<crashed, tunFD, fdOpen, base, readEvent, writeEvent, bases, readEv,
                   writeEv, rbase, startsDone, stopsDone, stopSeen, closes, NotLife>>

\* start(): pthread_create failed; Thread::start's result is not looked at
StartNoThread ==
    /\ ~crashed
    /\ startsBegun = startsDone
    /\ startsBegun < MaxStarts
    /\ startsBegun' = startsBegun + 1
    /\ UNCHANGED <<crashed, tunFD, fdOpen, base, readEvent, writeEvent, bases, readEv,
                   writeEv, rpc, rbase, startsDone, stopsDone, stopSeen, closes, NotLife>>

\* start() returns to its caller
StartReturn ==
    /\ ~crashed
    /\ startsBegun = startsDone + 1
    /\ startsDone' = startsDone + 1
    /\ UNCHANGED <<crashed, tunFD, fdOpen, base, readEvent, writeEvent, bases, readEv,
                   writeEv, rpc, rbase, startsBegun, stopsDone, stopSeen, closes, NotLife>>

\* the reactor threads of the start() calls that have returned
Started == {i \in 1..startsDone : rpc[i] # "none"}

\* stop(): if (base) event_base_loopbreak(base).  An indeterminate base that
\* is not null is a wild pointer: the call faults or scribbles and returns.
Stop ==
    /\ ~crashed
    /\ stopsDone < MaxStops
    /\ stopsDone' = stopsDone + 1
    /\ stopSeen' = stopSeen \cup Started
    /\ IF base = NullPtr
       THEN UNCHANGED <<bases, crashed>>
       ELSE IF LiveBase(base)
       THEN /\ bases' = [bases EXCEPT ![base].brk = TRUE]
            /\ UNCHANGED crashed
       ELSE /\ crashed' \in {TRUE, FALSE}
            /\ UNCHANGED bases
    /\ UNCHANGED <<tunFD, fdOpen, base, readEvent, writeEvent, readEv, writeEv, rpc,
                   rbase, startsBegun, startsDone, closes, NotLife>>

\* base = event_base_new()
SetupBase(i) ==
    /\ ~crashed
    /\ rpc[i] = "setup"
    /\ bases' = [bases EXCEPT ![i] = [st |-> "live", running |-> FALSE, brk |-> FALSE]]
    /\ base' = i
    /\ rpc' = [rpc EXCEPT ![i] = "new_read"]
    /\ UNCHANGED <<crashed, tunFD, fdOpen, readEvent, writeEvent, readEv, writeEv, rbase,
                   startsBegun, startsDone, stopsDone, stopSeen, closes, NotLife>>

\* event_base_new() returned null: the thread returns
SetupBaseFail(i) ==
    /\ ~crashed
    /\ rpc[i] = "setup"
    /\ base' = NullPtr
    /\ rpc' = [rpc EXCEPT ![i] = "failed"]
    /\ UNCHANGED <<crashed, tunFD, fdOpen, readEvent, writeEvent, bases, readEv, writeEv,
                   rbase, startsBegun, startsDone, stopsDone, stopSeen, closes, NotLife>>

\* readEvent = event_new(base, tunFD, EV_READ | EV_PERSIST, onRead, this)
NewRead(i) ==
    /\ ~crashed
    /\ rpc[i] = "new_read"
    /\ readEv' = [readEv EXCEPT ![i] = MadeEvent("new", base)]
    /\ readEvent' = i
    /\ rpc' = [rpc EXCEPT ![i] = "add_read"]
    /\ UNCHANGED <<crashed, tunFD, fdOpen, base, writeEvent, bases, writeEv, rbase,
                   startsBegun, startsDone, stopsDone, stopSeen, closes, NotLife>>

\* event_new returned null: the thread returns
NewReadFail(i) ==
    /\ ~crashed
    /\ rpc[i] = "new_read"
    /\ readEvent' = NullPtr
    /\ rpc' = [rpc EXCEPT ![i] = "failed"]
    /\ UNCHANGED <<crashed, tunFD, fdOpen, base, writeEvent, bases, readEv, writeEv, rbase,
                   startsBegun, startsDone, stopsDone, stopSeen, closes, NotLife>>

\* event_add(readEvent, nullptr): a null event faults; an event without a
\* base is refused
AddRead(i) ==
    /\ ~crashed
    /\ rpc[i] = "add_read"
    /\ IF ~LiveRead(readEvent)
       THEN /\ crashed' = TRUE
            /\ UNCHANGED <<readEv, rpc>>
       ELSE /\ readEv' = IF readEv[readEvent].base # NullPtr
                         THEN [readEv EXCEPT ![readEvent].st = "added"]
                         ELSE readEv
            /\ rpc' = [rpc EXCEPT ![i] = "new_write"]
            /\ UNCHANGED crashed
    /\ UNCHANGED <<tunFD, fdOpen, base, readEvent, writeEvent, bases, writeEv, rbase,
                   startsBegun, startsDone, stopsDone, stopSeen, closes, NotLife>>

\* writeEvent = event_new(base, tunFD, EV_WRITE | EV_PERSIST, onWrite, this)
NewWrite(i) ==
    /\ ~crashed
    /\ rpc[i] = "new_write"
    /\ writeEv' = [writeEv EXCEPT ![i] = MadeEvent("new", base)]
    /\ writeEvent' = i
    /\ rpc' = [rpc EXCEPT ![i] = "enter"]
    /\ UNCHANGED <<crashed, tunFD, fdOpen, base, readEvent, bases, readEv, rbase,
                   startsBegun, startsDone, stopsDone, stopSeen, closes, NotLife>>

NewWriteFail(i) ==
    /\ ~crashed
    /\ rpc[i] = "new_write"
    /\ writeEvent' = NullPtr
    /\ rpc' = [rpc EXCEPT ![i] = "failed"]
    /\ UNCHANGED <<crashed, tunFD, fdOpen, base, readEvent, bases, readEv, writeEv, rbase,
                   startsBegun, startsDone, stopsDone, stopSeen, closes, NotLife>>

\* event_base_dispatch(base): event_base_loop clears event_break on entry; it
\* refuses a base whose loop is already running; a null base faults
EnterDispatch(i) ==
    /\ ~crashed
    /\ rpc[i] = "enter"
    /\ IF ~LiveBase(base)
       THEN /\ crashed' = TRUE
            /\ UNCHANGED <<bases, rbase, rpc>>
       ELSE IF bases[base].running
       THEN /\ rpc' = [rpc EXCEPT ![i] = "cleanup"]
            /\ UNCHANGED <<bases, rbase, crashed>>
       ELSE /\ bases' = [bases EXCEPT ![base].running = TRUE, ![base].brk = FALSE]
            /\ rbase' = [rbase EXCEPT ![i] = base]
            /\ rpc' = [rpc EXCEPT ![i] = "dispatch"]
            /\ UNCHANGED crashed
    /\ UNCHANGED <<tunFD, fdOpen, base, readEvent, writeEvent, readEv, writeEv,
                   startsBegun, startsDone, stopsDone, stopSeen, closes, NotLife>>

\* the loop wakes up and finds event_break set, or no event left on its base
DispatchReturn(i) ==
    /\ ~crashed
    /\ rpc[i] = "dispatch"
    /\ LiveBase(rbase[i])
    /\ bases[rbase[i]].brk \/ ~HasEvents(rbase[i])
    /\ bases' = [bases EXCEPT ![rbase[i]].running = FALSE]
    /\ rpc' = [rpc EXCEPT ![i] = "cleanup"]
    /\ UNCHANGED <<crashed, tunFD, fdOpen, base, readEvent, writeEvent, readEv, writeEv,
                   rbase, startsBegun, startsDone, stopsDone, stopSeen, closes, NotLife>>

\* the loop runs on a base another reactor thread has freed
DispatchFault(i) ==
    /\ ~crashed
    /\ rpc[i] = "dispatch"
    /\ ~LiveBase(rbase[i])
    /\ crashed' = TRUE
    /\ UNCHANGED <<tunFD, fdOpen, base, readEvent, writeEvent, bases, readEv, writeEv, rpc,
                   rbase, startsBegun, startsDone, stopsDone, stopSeen, closes, NotLife>>

\* after dispatch: event_free(readEvent), event_free(writeEvent),
\* event_base_free(base), each if the member is not null, each member nulled
Cleanup(i) ==
    /\ ~crashed
    /\ rpc[i] = "cleanup"
    /\ readEv' = IF LiveRead(readEvent)
                 THEN [readEv EXCEPT ![readEvent].st = "freed"] ELSE readEv
    /\ readEvent' = NullPtr
    /\ writeEv' = IF LiveWrite(writeEvent)
                  THEN [writeEv EXCEPT ![writeEvent].st = "freed"] ELSE writeEv
    /\ writeEvent' = NullPtr
    /\ bases' = IF LiveBase(base) THEN [bases EXCEPT ![base].st = "freed"] ELSE bases
    /\ base' = NullPtr
    /\ rpc' = [rpc EXCEPT ![i] = "close"]
    /\ UNCHANGED <<crashed, tunFD, fdOpen, rbase, startsBegun, startsDone, stopsDone,
                   stopSeen, closes, NotLife>>

\* if (tunFD >= 0) { close(tunFD); tunFD = -1; }
CloseFD(i) ==
    /\ ~crashed
    /\ rpc[i] = "close"
    /\ IF tunFD >= 0
       THEN /\ closes' = closes + 1
            /\ fdOpen' = FALSE
            /\ tunFD' = -1
       ELSE UNCHANGED <<closes, fdOpen, tunFD>>
    /\ rpc' = [rpc EXCEPT ![i] = "exited"]
    /\ UNCHANGED <<crashed, base, readEvent, writeEvent, bases, readEv, writeEv, rbase,
                   startsBegun, startsDone, stopsDone, stopSeen, NotLife>>

ReactorStep(i) ==
    \/ SetupBase(i)
    \/ SetupBaseFail(i)
    \/ NewRead(i)
    \/ NewReadFail(i)
    \/ AddRead(i)
    \/ NewWrite(i)
    \/ NewWriteFail(i)
    \/ EnterDispatch(i)
    \/ DispatchReturn(i)
    \/ DispatchFault(i)
    \/ Cleanup(i)
    \/ CloseFD(i)

NextLife ==
    \/ StartSpawn
    \/ StartNoThread
    \/ StartReturn
    \/ Stop
    \/ \E i \in Reactors : ReactorStep(i)

SpecLife == InitLife /\ [][NextLife]_vars

\* every reactor thread that can take a step eventually takes one
SpecLifeFair == SpecLife /\ \A i \in Reactors : WF_vars(ReactorStep(i))

\* C4: whatever the number of start() calls, at most one reactor thread
\* exists and at most one event base is being dispatched.
C4_StartIdempotent ==
    /\ Cardinality({i \in Reactors : Running(i)}) <= 1
    /\ Cardinality({b \in Reactors : bases[b].running}) <= 1

\* C5: every reactor thread that a stop() call was made for, after the
\* start() that launched it had returned, eventually is out of its dispatch
\* loop with its clean-up done (or never got to dispatch: its set-up failed),
\* unless the process has died of a wild pointer.
C5_StopTakesEffect ==
    \A i \in Reactors :
        (i \in stopSeen) ~> (rpc[i] \in {"exited", "failed"} \/ crashed)

\* C6: at the moment start() returns, the reactor thread it launched is
\* dispatching and a read event is pending on the base it dispatches.
C6_StartPostcondition ==
    [][startsDone' = startsDone + 1
         => /\ rpc'[startsDone'] = "dispatch"
            /\ \E e \in Reactors :
                 /\ readEv'[e].st = "added"
                 /\ readEv'[e].base = rbase'[startsDone']]_vars

-----------------------------------------------------------------------------
(* SpecRun: the whole engine.  Callers make start(), stop() and            *)
(* enqueueWrite calls in any order, before, between and after one another; *)
(* each reactor thread runs the lambda of start(); the first reactor       *)
(* thread, while it is in event_base_dispatch, runs onWrite when a write   *)
(* event is pending on its base and the fd is writable.  The handlers of   *)
(* the second reactor thread are not followed.  write() succeeds on the    *)
(* open descriptor and fails with EBADF on the closed one.                 *)

\* number of enqueueWrite calls the callers make in all
RunPackets == 1

\* number of stop() calls
RunStops == 1

RunStop ==
    /\ stopsDone < RunStops
    /\ Stop

RunCall(t) ==
    /\ nextPkt <= RunPackets
    /\ EwCall(t)

\* a reactor thread inside a handler is not in the loop of its base
RunReactorStep(i) ==
    /\ (i = Dispatcher /\ rpc[i] = "dispatch") => epc[Reactor] = "idle"
    /\ ReactorStep(i)

\* the kernel reports an open descriptor writable
RunOnWrite ==
    /\ fdOpen
    /\ LiveBase(rbase[Dispatcher])
    /\ OnWrite

\* write(fd, ...) on the open descriptor
RunWriteOk ==
    /\ fdOpen
    /\ OwWriteOk

\* write(fd, ...) on the closed descriptor: EBADF
RunWriteError ==
    /\ ~fdOpen
    /\ OwWriteError

\* the steps of a caller inside enqueueWrite
RunCallerStep(t) ==
    \/ EwWaitHoles(t)
    \/ EwPutLink(t)
    \/ EwSignalFilled(t)
    \/ EwCheck(t)
    \/ EwAdd(t)

\* the dispatch of onWrite and the steps of the handler; with one consumer
\* take() always returns a packet
RunHandlerStep ==
    \/ RunOnWrite
    \/ OwLoop
    \/ OwWaitFilled
    \/ OwTakeUnlink
    \/ OwTakeSignal
    \/ RunWriteOk
    \/ RunWriteError
    \/ OwEnd
    \/ OwDel

NextRun ==
    \/ StartSpawn
    \/ StartNoThread
    \/ StartReturn
    \/ RunStop
    \/ \E i \in Reactors : RunReactorStep(i)
    \/ \E t \in Callers : RunCall(t)
    \/ \E t \in Callers : RunCallerStep(t)
    \/ RunHandlerStep

SpecRun == InitLife /\ [][NextRun]_vars

\* every thread that can take a step eventually takes one, and the loop
\* eventually calls the handler of an event that stays ready
SpecRunFair ==
    /\ SpecRun
    /\ \A i \in Reactors : WF_vars(RunReactorStep(i))
    /\ \A t \in Callers : WF_vars(RunCallerStep(t))
    /\ WF_vars(RunHandlerStep)

\* a step in which write() is called on the descriptor
WriteCalled ==
    /\ Len(hist') > Len(hist)
    /\ hist'[Len(hist')].kind = "write"

\* C38: once the engine has closed the tun fd (tunFD = -1), no thread calls
\* read() or write() on that descriptor, whatever the sequence of start,
\* stop and writePacket calls.
C38_NoUseAfterClose == [][WriteCalled => (fdOpen /\ tunFD # -1)]_vars

\* enqueueWrite has returned with its packet in the queue, and the first
\* reactor thread has not made its write event yet
QueuedEarly ==
    /\ \A t \in Callers : epc[t] = "idle"
    /\ enqLog # <<>>
    /\ fdLog = <<>>
    /\ writeEv[Dispatcher].st = "none"

\* the first reactor thread is in event_base_dispatch and the fd is open
\* (an open tun fd is writable)
Dispatching ==
    /\ rpc[Dispatcher] = "dispatch"
    /\ fdOpen

\* the run is no longer one start() with its reactor in the loop
Disturbed ==
    \/ crashed
    \/ ~Dispatching
    \/ stopsDone > 0
    \/ startsBegun > 1

\* C40: a packet passed to writePacket before the reactor thread has
\* created the write event is written to the fd once the reactor is
\* dispatching and the fd is writable, with or without a later writePacket
\* call (unless the process dies, the reactor leaves its loop, stop() is
\* called or start() is called again).
C40_EarlyPacketsWritten ==
    [](QueuedEarly => [](Dispatching => <>(fdLog # <<>> \/ Disturbed)))

-----------------------------------------------------------------------------
(* SpecKnownIP: caller threads on the known-address list.                  *)
(* addKnownIPAddress is two calls on the ArrayList, contains and then add, *)
(* each under the list's own lock; the other three are one call each.      *)

\* number of calls on the known-address list
MaxIPOps == 4

NotIP == <<dequeVars, writeVars, lifeVars, dnsVars, pktVars, scanVars>>

\* a caller's argument list: one or two addresses
AddrLists == {<<a>> : a \in Addrs} \cup {<<a, b>> : a \in Addrs, b \in Addrs}

\* ArrayList::contains
contains(list, x) == x \in Range(list)

\* ArrayList::add
add(list, x) == Append(list, x)

\* ArrayList::addAllAbsent(ArrayList&)
RECURSIVE addAllAbsent(_, _)
addAllAbsent(list, src) ==
    IF src = <<>> THEN list
    ELSE addAllAbsent(IF contains(list, Head(src)) THEN list ELSE add(list, Head(src)),
                      Tail(src))

\* ArrayList::remove(const T&): erases the first occurrence
remove(list, x) ==
    IF contains(list, x)
    THEN LET i == CHOOSE k \in 1..Len(list) :
                      list[k] = x /\ \A j \in 1..(k - 1) : list[j] # x
         IN  SubSeq(list, 1, i - 1) \o SubSeq(list, i + 1, Len(list))
    ELSE list

\* ArrayList::removeAll(ArrayList&)
RECURSIVE removeAll(_, _)
removeAll(list, src) ==
    IF src = <<>> THEN list ELSE removeAll(remove(list, Head(src)), Tail(src))

InitKnownIP ==
    /\ crashed = FALSE
    /\ dq = NewDeque(IntMax)
    /\ DequeIdle /\ WriteIdle /\ LifeIdle /\ IPIdle /\ DNSIdle /\ PktIdle /\ ScanIdle

\* addKnownIPAddress: if (!knownIPAddresses.contains(ipAddress))
AddKnownCheck(t, x) ==
    /\ ipc[t] = "idle"
    /\ ipOps < MaxIPOps
    /\ ipOps' = ipOps + 1
    /\ IF contains(knownIPAddresses, x)
       THEN UNCHANGED <<ipc, iparg>>
       ELSE /\ ipc' = [ipc EXCEPT ![t] = "add"]
            /\ iparg' = [iparg EXCEPT ![t] = Some(x)]
    /\ UNCHANGED <<crashed, knownIPAddresses, NotIP>>

\* addKnownIPAddress: knownIPAddresses.add(ipAddress)
AddKnownAdd(t) ==
    /\ ipc[t] = "add"
    /\ knownIPAddresses' = add(knownIPAddresses, Value(iparg[t]))
    /\ ipc' = [ipc EXCEPT ![t] = "idle"]
    /\ iparg' = [iparg EXCEPT ![t] = None]
    /\ UNCHANGED <<crashed, ipOps, NotIP>>

addKnownIPAddresses(t, xs) ==
    /\ ipc[t] = "idle"
    /\ ipOps < MaxIPOps
    /\ ipOps' = ipOps + 1
    /\ knownIPAddresses' = addAllAbsent(knownIPAddresses, xs)
    /\ UNCHANGED <<crashed, ipc, iparg, NotIP>>

deleteKnownIPAddress(t, x) ==
    /\ ipc[t] = "idle"
    /\ ipOps < MaxIPOps
    /\ ipOps' = ipOps + 1
    /\ knownIPAddresses' = remove(knownIPAddresses, x)
    /\ UNCHANGED <<crashed, ipc, iparg, NotIP>>

deleteKnownIPAddresses(t, xs) ==
    /\ ipc[t] = "idle"
    /\ ipOps < MaxIPOps
    /\ ipOps' = ipOps + 1
    /\ knownIPAddresses' = removeAll(knownIPAddresses, xs)
    /\ UNCHANGED <<crashed, ipc, iparg, NotIP>>

NextKnownIP ==
    \E t \in Callers :
        \/ \E x \in Addrs : AddKnownCheck(t, x)
        \/ AddKnownAdd(t)
        \/ \E xs \in AddrLists : addKnownIPAddresses(t, xs)
        \/ \E x \in Addrs : deleteKnownIPAddress(t, x)
        \/ \E xs \in AddrLists : deleteKnownIPAddresses(t, xs)

SpecKnownIP == InitKnownIP /\ [][NextKnownIP]_vars

\* C7: whatever the interleaving of the four known-address operations on
\* several threads, no address occurs more than once in the known-address list.
C7_KnownIPUnique ==
    \A i, j \in 1..Len(knownIPAddresses) :
        i # j => knownIPAddresses[i] # knownIPAddresses[j]

-----------------------------------------------------------------------------
(* SpecDNS: setDNSMap, addDNSEntry and deleteDNSEntry, called one after    *)
(* the other.  dnsMap gives each address None or Some(list of hostnames);  *)
(* dnsLast is the last call made, with rep set when it repeats, argument   *)
(* for argument, the call before it.                                       *)

NotDNS == <<dequeVars, writeVars, lifeVars, ipVars, pktVars, scanVars>>

NotDNS_Scan == <<dequeVars, writeVars, lifeVars, ipVars, pktVars, putLast, slotVars>>

\* ConcurrentHashMap::get: a copy of the value, or nullopt
get(map, key) == map[key]

\* ConcurrentHashMap::put
put(map, key, value) == [map EXCEPT ![key] = Some(value)]

\* ConcurrentHashMap::remove
removeKey(map, key) == [map EXCEPT ![key] = None]

\* addDNSEntry as it would be with the grown list stored back in the map
addDNSEntry_appending(map, ip, host) ==
    LET values == get(map, ip)
    IN  IF HasValue(values)
        THEN put(map, ip, add(Value(values), host))
        ELSE put(map, ip, add(<<>>, host))

\* addDNSEntry: the list that get returned is a copy, and the host added to
\* it stays in the copy; only the list of a new address is put in the map
addDNSEntry(map, ip, host) ==
    LET values == get(map, ip)
    IN  IF HasValue(values)
        THEN LET list == IF ~contains(Value(values), host)
                         THEN add(Value(values), host)
                         ELSE Value(values)
             IN  map
        ELSE put(map, ip, add(<<>>, host))

\* isDNSQuery: the addresses a query for host is answered with, one response
\* for each entry of dnsMap whose list contains the host
Answers(map, host) ==
    {ip \in Addrs : HasValue(map[ip]) /\ contains(Value(map[ip]), host)}

\* maps a caller passes to setDNSMap: empty, or one address with a list of
\* one or two hostnames
OneEntryMaps ==
    {EmptyMap}
      \cup {put(EmptyMap, a, <<h>>) : a \in Addrs, h \in Hosts}
      \cup {put(EmptyMap, a, <<h[1], h[2]>>) : a \in Addrs, h \in Hosts \X Hosts}

DNSCall(op, ip, host) ==
    LET call == [op |-> op, ip |-> ip, host |-> host, rep |-> FALSE]
    IN  Some([call EXCEPT !.rep = dnsLast # <<>> /\ [dnsLast[1] EXCEPT !.rep = FALSE] = call])

InitDNS ==
    /\ crashed = FALSE
    /\ dq = NewDeque(IntMax)
    /\ DequeIdle /\ WriteIdle /\ LifeIdle /\ IPIdle /\ DNSIdle /\ PktIdle /\ ScanIdle

\* setDNSMap: dnsMap = map
SetDNSMap(map) ==
    /\ dnsMap' = map
    /\ dnsLast' = DNSCall("setDNSMap", 0, 0)
    /\ dnsOnlyAdds' = FALSE
    /\ UNCHANGED <<crashed, NotDNS>>

AddDNSEntry(ip, host) ==
    /\ dnsMap' = addDNSEntry(dnsMap, ip, host)
    /\ dnsLast' = DNSCall("addDNSEntry", ip, host)
    /\ UNCHANGED <<crashed, dnsOnlyAdds, NotDNS>>

\* deleteDNSEntry: dnsMap.remove(ipAddress)
DeleteDNSEntry(ip) ==
    /\ dnsMap' = removeKey(dnsMap, ip)
    /\ dnsLast' = DNSCall("deleteDNSEntry", ip, 0)
    /\ dnsOnlyAdds' = FALSE
    /\ UNCHANGED <<crashed, NotDNS>>

NextDNS ==
    \/ \E map \in OneEntryMaps : SetDNSMap(map)
    \/ \E ip \in Addrs, host \in Hosts : AddDNSEntry(ip, host)
    \/ \E ip \in Addrs : DeleteDNSEntry(ip)

SpecDNS == InitDNS /\ [][NextDNS]_vars

LastWasAdd == dnsLast # <<>> /\ dnsLast[1].op = "addDNSEntry"

\* C8: when addDNSEntry(ip, host) has returned, host is in the list stored
\* under ip, and a query for host is answered with ip.
C8_AddAppends ==
    LastWasAdd =>
        /\ HasValue(dnsMap[dnsLast[1].ip])
        /\ contains(Value(dnsMap[dnsLast[1].ip]), dnsLast[1].host)
        /\ dnsLast[1].ip \in Answers(dnsMap, dnsLast[1].host)

NoDuplicateHost(map) ==
    \A ip \in Addrs :
        HasValue(map[ip]) =>
            \A i, j \in 1..Len(Value(map[ip])) :
                i # j => Value(map[ip])[i] # Value(map[ip])[j]

\* C9: while addDNSEntry is the only call made on the mapping, no list in
\* it holds a hostname twice; and an addDNSEntry call that repeats the call
\* before it leaves the mapping as that call left it.
C9_IdempotentInsert ==
    /\ [](dnsOnlyAdds => NoDuplicateHost(dnsMap))
    /\ [][(dnsLast' # <<>> /\ dnsLast'[1].op = "addDNSEntry" /\ dnsLast'[1].rep)
             => dnsMap' = dnsMap]_vars

C9_Witness ==
    /\ dnsOnlyAdds
    /\ LastWasAdd
    /\ dnsLast[1].rep
    /\ \E ip \in Addrs : HasValue(dnsMap[ip])

\* C10: a hostname is in the list of at most one address.
C10_OneAddressPerHost ==
    \A host \in Hosts : Cardinality(Answers(dnsMap, host)) <= 1

-----------------------------------------------------------------------------
(* Packets: byte sequences, and the functions of TUNInterface.cpp that     *)
(* classify and rewrite them.  Offsets are counted from 0 as in the code.  *)

At(p, i) == p[i + 1]

\* a read at an offset the code has not checked against the size: past the
\* end it yields whatever byte the storage holds there
ReadAt(p, i, ub) == IF i < Len(p) THEN p[i + 1] ELSE ub

SetAt(p, i, b) == [p EXCEPT ![i + 1] = b]

Slice(p, from, n) == SubSeq(p, from + 1, from + n)

\* std::vector::resize: cut, or fill with zero
Resize(p, n) ==
    IF n <= Len(p) THEN SubSeq(p, 1, n) ELSE p \o [k \in 1..(n - Len(p)) |-> 0]

\* ntohs of a 16-bit field: the first byte is the high one
U16BE(p, i) == At(p, i) * 256 + At(p, i + 1)

\* a 16-bit value stored through htons
PutU16BE(p, i, v) == SetAt(SetAt(p, i, (v \div 256) % 256), i + 1, v % 256)

\* a uint16_t stored as the little-endian host stores it
PutU16Host(p, i, v) == SetAt(SetAt(p, i, v % 256), i + 1, (v \div 256) % 256)

IPPROTO_ICMP == 1

IPPROTO_UDP == 17

\* sizeof(struct udphdr)
UdpHeaderLen == 8

\* sizeof(struct ip)
IpStructLen == 20

\* inet_aton of the address string numbered a
inet_aton(a) == <<10, 0, 0, a>>

\* the hostname string numbered h, as its characters
HostString(h) == <<96 + h>>

\* the sum of the 16-bit words of data[from .. from + length), each word as
\* the little-endian host loads it, and the odd last byte shifted left by 8
RECURSIVE SumWords(_, _, _)
SumWords(data, from, length) ==
    IF length > 1
    THEN (At(data, from) + 256 * At(data, from + 1)) + SumWords(data, from + 2, length - 2)
    ELSE IF length = 1 THEN (At(data, from) * 256) % 65536
    ELSE 0

RECURSIVE Fold16(_)
Fold16(sum) == IF sum \div 65536 > 0 THEN Fold16((sum % 65536) + (sum \div 65536)) ELSE sum

\* a checksum that returns the folded sum without complementing it
computeIPChecksum_plain(data, from, length) ==
    Fold16(SumWords(data, from, length))

\* computeIPChecksum(data + from, length).  The uint32_t sum cannot wrap: a
\* packet has fewer than 32768 words of at most 65535 each.
computeIPChecksum(data, from, length) ==
    65535 - Fold16(SumWords(data, from, length))

\* result += "." between two non-empty parts
JoinName(result, more) ==
    IF result # <<>> /\ more # <<>> THEN result \o <<46>> \o more ELSE result \o more

\* extractDNSName(payload, offset, maxLen, endOffset, depth): the name and
\* the value left in endOffset
RECURSIVE extractDNSName(_, _, _, _)
RECURSIVE WalkLabels(_, _, _, _, _, _)
WalkLabels(payload, offset, maxLen, depth, originalOffset, result) ==
    IF offset >= maxLen
    THEN [name |-> result, endOffset |-> offset]
    ELSE LET len == At(payload, offset)
         IN  IF len >= 192
             THEN IF offset + 1 >= maxLen
                  THEN [name |-> result, endOffset |-> offset]
                  ELSE LET pointer == (len % 64) * 256 + At(payload, offset + 1)
                           pointedName ==
                               extractDNSName(payload, pointer, maxLen, depth + 1).name
                       IN  [name |-> JoinName(result, pointedName),
                            endOffset |-> originalOffset + 2]
             ELSE IF len = 0
             THEN [name |-> result, endOffset |-> offset + 1]
             ELSE IF offset + 1 + len > maxLen
             THEN [name |-> result, endOffset |-> offset + 1]
             ELSE WalkLabels(payload, offset + 1 + len, maxLen, depth, originalOffset,
                             IF result # <<>>
                             THEN result \o <<46>> \o Slice(payload, offset + 1, len)
                             ELSE Slice(payload, offset + 1, len))

extractDNSName(payload, offset, maxLen, depth) ==
    IF depth > 5
    THEN [name |-> <<>>, endOffset |-> 0]
    ELSE WalkLabels(payload, offset, maxLen, depth, offset, <<>>)

\* the while loop of sendDNSResponse that looks for the end of the question:
\* every non-zero byte it stands on is taken as a label length
RECURSIVE SkipLabels(_, _, _)
SkipLabels(dns, questionEnd, dnsLength) ==
    IF questionEnd < dnsLength /\ At(dns, questionEnd) # 0
    THEN SkipLabels(dns, questionEnd + At(dns, questionEnd) + 1, dnsLength)
    ELSE questionEnd

\* sendDNSResponse, the part both kinds of response end with: addresses and
\* ports swapped, ip_len, ip_sum, uh_ulen and uh_sum set
FinishResponse(response, ipHeaderLen) ==
    LET swapped == [k \in 1..Len(response) |->
                      IF k - 1 \in 12..15 THEN response[k + 4]
                      ELSE IF k - 1 \in 16..19 THEN response[k - 4]
                      ELSE IF k - 1 \in ipHeaderLen..(ipHeaderLen + 1) THEN response[k + 2]
                      ELSE IF k - 1 \in (ipHeaderLen + 2)..(ipHeaderLen + 3) THEN response[k - 2]
                      ELSE response[k]]
        totalLen == Len(response) % 65536
        withLen  == PutU16Host(PutU16BE(swapped, 2, totalLen), 10, 0)
        withSum  == PutU16Host(withLen, 10, computeIPChecksum(withLen, 0, ipHeaderLen))
    IN  PutU16Host(PutU16BE(withSum, ipHeaderLen + 4, (totalLen - ipHeaderLen) % 65536),
                   ipHeaderLen + 6, 0)

\* the answer record of an A response
AnswerRecord(resolvedIP) == <<192, 12, 0, 1, 0, 1, 0, 0, 1, 44, 0, 4>> \o inet_aton(resolvedIP)

\* sendDNSResponse(packet, length, resolvedIP): the buffer it passes to
\* enqueueWrite, or None when it returns without one
sendDNSResponse(packet, resolvedIP) ==
    LET length       == Len(packet)
        ipHeaderLen  == (At(packet, 0) % 16) * 4
        dnsStart     == ipHeaderLen + UdpHeaderLen
        dnsLength    == length - ipHeaderLen - UdpHeaderLen
        qtype        == At(packet, dnsStart + dnsLength - 4) * 256
                            + At(packet, dnsStart + dnsLength - 3)
        questionEnd  == SkipLabels(Slice(packet, dnsStart, dnsLength), 12, dnsLength) + 5
        flagged(an)  == SetAt(SetAt(SetAt(SetAt(packet, dnsStart + 2, 129),
                                          dnsStart + 3, 128),
                                    dnsStart + 6, 0),
                              dnsStart + 7, an)
    IN  IF length < IpStructLen THEN None
        ELSE IF At(packet, 9) # IPPROTO_UDP THEN None
        ELSE IF dnsLength < 12 THEN None
        ELSE IF qtype = 28 \/ qtype = 65
        THEN Some(FinishResponse(Resize(flagged(0), dnsStart + questionEnd), ipHeaderLen))
        ELSE IF qtype # 1 THEN None
        ELSE Some(FinishResponse(Resize(flagged(1), dnsStart + questionEnd)
                                     \o AnswerRecord(resolvedIP),
                                 ipHeaderLen))

\* a lookup that takes every hostname for the name asked
containsName_any(list, domain) == list # <<>>

\* ArrayList<std::string>::contains(domain) on a list of hostnames
containsName(list, domain) == \E i \in 1..Len(list) : HostString(list[i]) = domain

\* dnsMap.forEach of isDNSQuery from address k on: the responses enqueued
RECURSIVE ForEachEntry(_, _, _, _)
ForEachEntry(map, k, domain, packet) ==
    IF k > NumAddrs THEN <<>>
    ELSE (IF HasValue(map[k]) /\ containsName(Value(map[k]), domain)
          THEN sendDNSResponse(packet, k)
          ELSE <<>>)
         \o ForEachEntry(map, k + 1, domain, packet)

NotDNSQuery == [dns |-> FALSE, enq |-> <<>>]

\* isDNSQuery(packet): what it returns, and the buffers it passed to
\* enqueueWrite on the way
isDNSQuery(packet, map, ub) ==
    LET b0          == ReadAt(packet, 0, ub)
        ipHeaderLen == (b0 % 16) * 4
        dnsStart    == ipHeaderLen + UdpHeaderLen
        dnsLen      == Len(packet) - ipHeaderLen - UdpHeaderLen
        payload     == Slice(packet, dnsStart, dnsLen)
        parsed      == extractDNSName(payload, 12, dnsLen, 0)
    IN  IF b0 \div 16 # 4 \/ ReadAt(packet, 9, ub) # IPPROTO_UDP THEN NotDNSQuery
        ELSE IF Len(packet) < ipHeaderLen + UdpHeaderLen THEN NotDNSQuery
        ELSE IF U16BE(packet, ipHeaderLen + 2) # 53 THEN NotDNSQuery
        ELSE IF dnsLen < 12 THEN NotDNSQuery
        ELSE IF dnsLen < parsed.endOffset + 4 THEN NotDNSQuery
        ELSE [dns |-> TRUE, enq |-> ForEachEntry(map, 1, parsed.name, packet)]

\* the scan of knownIPAddresses in handleICMPPacket and in writePacket:
\* inet_aton of an element equals the address
isKnownIP(known, addr) == \E i \in 1..Len(known) : inet_aton(known[i]) = addr

\* handleICMPPacket(packet): the packets it passes to sendOutgoingPacket.
\* Nothing is checked against packet.size() before the type byte and the
\* destination address are read.
handleICMPPacket(packet, known, ub) ==
    LET ipHeaderLen == (ReadAt(packet, 0, ub) % 16) * 4
        dstIP       == [k \in 1..4 |-> ReadAt(packet, 15 + k, ub)]
    IN  IF ReadAt(packet, ipHeaderLen, ub) = 8 /\ isKnownIP(known, dstIP)
        THEN <<packet>>
        ELSE <<>>

\* an onRead that leaves the 4-byte header on the packet
onRead_unstripped(buffer, known, map, ub) ==
    LET packet == buffer
        query  == isDNSQuery(packet, map, ub)
    IN  IF Len(buffer) = 0 THEN [cb |-> <<>>, enq |-> <<>>]
        ELSE IF ReadAt(packet, 9, ub) = IPPROTO_ICMP
        THEN [cb |-> handleICMPPacket(packet, known, ub), enq |-> <<>>]
        ELSE IF ~query.dns
        THEN [cb |-> <<packet>>, enq |-> query.enq]
        ELSE [cb |-> <<>>, enq |-> query.enq]

\* onRead for a read() that returned the bytes of buffer: the packets passed
\* to sendOutgoingPacket and the buffers passed to enqueueWrite
onRead(buffer, known, map, ub) ==
    LET packet == IF Len(buffer) >= 4 THEN SubSeq(buffer, 5, Len(buffer)) ELSE buffer
        query  == isDNSQuery(packet, map, ub)
    IN  IF Len(buffer) = 0 THEN [cb |-> <<>>, enq |-> <<>>]
        ELSE IF ReadAt(packet, 9, ub) = IPPROTO_ICMP
        THEN [cb |-> handleICMPPacket(packet, known, ub), enq |-> <<>>]
        ELSE IF ~query.dns
        THEN [cb |-> <<packet>>, enq |-> query.enq]
        ELSE [cb |-> <<>>, enq |-> query.enq]

\* writePacket, the echo reply made in place: type 0, the ICMP checksum over
\* totalLen - ipHeaderLen bytes, the addresses swapped, the header checksum
EchoReply(packet, ipHeaderLen, totalLen) ==
    LET typed   == PutU16Host(SetAt(packet, ipHeaderLen, 0), ipHeaderLen + 2, 0)
        summed  == PutU16Host(typed, ipHeaderLen + 2,
                              computeIPChecksum(typed, ipHeaderLen, totalLen - ipHeaderLen))
        swapped == [k \in 1..Len(summed) |->
                      IF k - 1 \in 12..15 THEN summed[k + 4]
                      ELSE IF k - 1 \in 16..19 THEN summed[k - 4]
                      ELSE summed[k]]
        zeroed  == PutU16Host(swapped, 10, 0)
    IN  PutU16Host(zeroed, 10, computeIPChecksum(zeroed, 0, ipHeaderLen))

\* writePacket(packet) for a packet that holds at least the fixed IPv4 header:
\* what it does with it.  The ICMP type is read without a look at the size;
\* an echo reply written past the end of the caller's buffer is a fault.
writePacket(packet, known, ub) ==
    LET ipHeaderLen == (At(packet, 0) % 16) * 4
        totalLen    == U16BE(packet, 2)
    IN  IF Len(packet) < ipHeaderLen THEN [out |-> "return", pkt |-> <<>>]
        ELSE IF At(packet, 9) # IPPROTO_ICMP THEN [out |-> "enqueueWrite", pkt |-> packet]
        ELSE IF totalLen < ipHeaderLen \/ totalLen > Len(packet)
        THEN [out |-> "return", pkt |-> <<>>]
        ELSE IF ReadAt(packet, ipHeaderLen, ub) # 8
        THEN [out |-> "enqueueWrite", pkt |-> packet]
        ELSE IF ~isKnownIP(known, Slice(packet, 12, 4))
        THEN [out |-> "enqueueWrite", pkt |-> packet]
        ELSE IF Len(packet) < ipHeaderLen + 4 THEN [out |-> "fault", pkt |-> <<>>]
        ELSE [out |-> "sendOutgoingPacket",
              pkt |-> EchoReply(packet, ipHeaderLen, totalLen)]

-----------------------------------------------------------------------------
(* The buffers the tun fd yields and the packets the overlay passes to     *)
(* writePacket.                                                            *)

\* an address no address string of the configuration parses to
StrangeIP == <<10, 0, 0, 99>>

\* the host stack's own address
LocalIP == <<10, 0, 0, 100>>

\* a 20-byte IPv4 header (version 4, ip_hl 5), checksum left 0
IPv4Header(proto, src, dst, totalLen) ==
    <<69, 0, totalLen \div 256, totalLen % 256, 0, 0, 0, 0, 64, proto, 0, 0>> \o src \o dst

IPv4Packet(proto, src, dst, body) ==
    IPv4Header(proto, src, dst, IpStructLen + Len(body)) \o body

\* an ICMP message: type, code 0, checksum 0, identifier and sequence number
ICMPMessage(type) == <<type, 0, 0, 0, 0, 1, 0, 1>>

UDPDatagram(dport, payload) ==
    <<192, 0, dport \div 256, dport % 256,
      (UdpHeaderLen + Len(payload)) \div 256, (UdpHeaderLen + Len(payload)) % 256, 0, 0>>
        \o payload

\* a DNS header of a query with one question; id is its first two bytes
DNSHeader(id) == id \o <<0, 0, 0, 1, 0, 0, 0, 0, 0, 0>>

\* a QNAME of one label
OneLabel(name) == <<Len(name)>> \o name \o <<0>>

\* QTYPE and QCLASS IN
TypeClass(qtype) == <<0, qtype, 0, 1>>

\* an EDNS OPT record, as resolvers append to their queries
OptRecord == <<0, 0, 41, 16, 0, 0, 0, 0, 0, 0, 0>>

DNSQuery(payload) == IPv4Packet(IPPROTO_UDP, LocalIP, StrangeIP, UDPDatagram(53, payload))

\* queries for the hostname numbered 1, by QTYPE, plain and with an OPT record
PlainQuery(qtype) == DNSQuery(DNSHeader(<<18, 52>>) \o OneLabel(HostString(1)) \o TypeClass(qtype))

QueryWithOpt(qtype) ==
    DNSQuery(DNSHeader(<<18, 52>>) \o OneLabel(HostString(1)) \o TypeClass(qtype) \o OptRecord)

\* a query whose QNAME is a compression pointer to offset 0, where the id
\* bytes and the first flags byte spell the one-label name of hostname 1
PointerQuery == DNSQuery(DNSHeader(<<1>> \o HostString(1)) \o <<192, 0>> \o TypeClass(1))

\* a query for a name that is in no list
OtherNameQuery == DNSQuery(DNSHeader(<<18, 52>>) \o OneLabel(<<122>>) \o TypeClass(1))

\* UDP to port 53 with 8 bytes of payload
ShortDNS == DNSQuery(<<18, 52, 1, 0, 0, 1, 0, 0>>)

\* a label whose length byte (63) runs past the payload, 6 bytes before its end
LongLabelDNS == DNSQuery(DNSHeader(<<18, 52>>) \o <<63, 97, 0, 0, 1, 0, 1>>)

\* a QNAME that ends 2 bytes before the end of the payload
NoTypeDNS == DNSQuery(DNSHeader(<<18, 52>>) \o OneLabel(HostString(1)) \o <<0, 1>>)

\* a compression pointer to offset 200, past the payload
FarPointerDNS == DNSQuery(DNSHeader(<<18, 52>>) \o <<192, 200>> \o TypeClass(1))

\* an IPv6 packet from 2001:db8::1 (no payload, next header 59)
IPv6Packet ==
    <<96, 0, 0, 0, 0, 0, 59, 64>>
        \o <<32, 1, 13, 184, 0, 0, 0, 0, 0, 0, 0, 0, 0, 0, 0, 1>>
        \o <<32, 1, 13, 184, 0, 0, 0, 0, 0, 0, 0, 0, 0, 0, 0, 2>>

\* the utun header of an IPv6 packet (AF_INET6 is 30)
Tun6Header == <<0, 0, 0, 30>>

\* the buffers read() may return
ReadBuffers ==
    {Frame(IPv4Packet(6, LocalIP, StrangeIP, <<1, 2, 3, 4>>)),
     Frame(IPv4Packet(IPPROTO_UDP, LocalIP, StrangeIP, UDPDatagram(80, <<7>>))),
     Frame(IPv4Packet(IPPROTO_ICMP, LocalIP, inet_aton(1), ICMPMessage(8))),
     Frame(IPv4Packet(IPPROTO_ICMP, LocalIP, StrangeIP, ICMPMessage(8))),
     Frame(IPv4Packet(IPPROTO_ICMP, LocalIP, inet_aton(1), ICMPMessage(0))),
     Frame(IPv4Packet(IPPROTO_ICMP, LocalIP, inet_aton(1), <<>>)),
     Tun6Header \o IPv6Packet,
     Frame(OtherNameQuery), Frame(PointerQuery),
     Frame(ShortDNS), Frame(LongLabelDNS), Frame(NoTypeDNS), Frame(FarPointerDNS)}
      \cup {Frame(PlainQuery(qtype)) : qtype \in {1, 28, 65, 15}}
      \cup {Frame(QueryWithOpt(qtype)) : qtype \in {1, 28}}

\* the packets the overlay may pass to writePacket; the last two are an echo
\* reply and an echo request whose total-length field is 8 more than they hold
WritePackets ==
    {IPv4Packet(6, StrangeIP, LocalIP, <<1, 2, 3, 4>>),
     IPv4Packet(IPPROTO_ICMP, inet_aton(1), LocalIP, ICMPMessage(8)),
     IPv4Packet(IPPROTO_ICMP, inet_aton(1), LocalIP, ICMPMessage(8) \o <<5>>),
     IPv4Packet(IPPROTO_ICMP, StrangeIP, LocalIP, ICMPMessage(8)),
     IPv4Packet(IPPROTO_ICMP, inet_aton(1), LocalIP, ICMPMessage(0)),
     IPv4Header(IPPROTO_ICMP, StrangeIP, LocalIP, 36) \o ICMPMessage(0),
     IPv4Header(IPPROTO_ICMP, inet_aton(1), LocalIP, 36) \o ICMPMessage(8)}

\* the byte values an unchecked read past the end of a buffer may yield
StaleBytes == {0, 8}

-----------------------------------------------------------------------------
(* SpecPacket: the reactor thread of one start() is dispatching.  It runs  *)
(* onRead for each buffer the fd yields and onWrite when the write event   *)
(* is pending; caller threads run writePacket.  The known-address list,    *)
(* the DNS mapping and the callback slot are as earlier calls left them.   *)

\* number of buffers read and writePacket calls, together
MaxPktOps == 2

\* DNS mappings addDNSEntry calls can have left
PacketMaps ==
    {EmptyMap,
     addDNSEntry(EmptyMap, 1, 1),
     addDNSEntry(addDNSEntry(EmptyMap, 1, 1), 2, 1)}

\* writeQueue.put(e) with a hole free: the three steps of put in one
putNow(q, e) ==
    LET linked == enqueue([q EXCEPT !.nHoles = q.nHoles - 1], e)
    IN  [linked EXCEPT !.nFilled = linked.nFilled + 1]

RECURSIVE putEach(_, _)
putEach(q, frames) ==
    IF frames = <<>> THEN q ELSE putEach(putNow(q, Head(frames)), Tail(frames))

Frames(packets) == [k \in 1..Len(packets) |-> Frame(packets[k])]

CallBacks(t, packets) == [k \in 1..Len(packets) |-> [thread |-> t, pkt |-> packets[k]]]

InitPacket ==
    /\ crashed = FALSE
    /\ dq = NewDeque(IntMax)
    /\ DequeIdle /\ WriteIdle /\ LifeDispatching
    /\ knownIPAddresses \in {<<>>, <<1>>}
    /\ ipc = [t \in Threads |-> "idle"]
    /\ iparg = [t \in Threads |-> <<>>]
    /\ ipOps = 0
    /\ dnsMap \in PacketMaps
    /\ dnsLast = <<>>
    /\ dnsOnlyAdds = TRUE
    /\ callBack \in BOOLEAN
    /\ readLog = <<>>
    /\ cbLog = <<>>
    /\ wpLog = <<>>
    /\ pktOps = 0
    /\ ScanIdle

\* the reactor, in event_base_dispatch, finds the fd readable and calls
\* onRead, which runs to its end: sendOutgoingPacket calls the callback if
\* the slot holds one, enqueueWrite puts the framed buffer on the queue and
\* adds the write event if it is not pending
ReadReady(buffer, ub) ==
    /\ ~crashed
    /\ rpc[Dispatcher] = "dispatch"
    /\ epc[Reactor] = "idle"
    /\ \E ev \in Reactors : readEv[ev].st = "added" /\ readEv[ev].base = rbase[Dispatcher]
    /\ pktOps < MaxPktOps
    /\ LET done  == onRead(buffer, knownIPAddresses, dnsMap, ub)
           calls == IF callBack THEN done.cb ELSE <<>>
       IN  /\ readLog' = Append(readLog, [buf |-> buffer, cb |-> calls, enq |-> done.enq])
           /\ cbLog' = cbLog \o CallBacks(Reactor, calls)
           /\ dq' = putEach(dq, Frames(done.enq))
           /\ enqLog' = enqLog \o Frames(done.enq)
           /\ writeEv' = IF done.enq # <<>> /\ ValidWriteEvent(writeEvent)
                         THEN [writeEv EXCEPT ![writeEvent].st = "added"]
                         ELSE writeEv
    /\ fdCalls' = fdCalls \cup {FdCall(Reactor, "read")}
    /\ pktOps' = pktOps + 1
    /\ UNCHANGED <<crashed, qpc, qarg, qret, opsLeft, epc, nextPkt, hist, fdLog, fails,
                   LifeButWriteEv, ipVars, dnsVars, scanVars, callBack, wpLog>>

\* writePacket(packet) on a caller thread, up to its return or to the call
\* of writeQueue.put inside enqueueWrite
CallWritePacket(t, packet, ub) ==
    /\ ~crashed
    /\ epc[t] = "idle"
    /\ pktOps < MaxPktOps
    /\ LET done  == writePacket(packet, knownIPAddresses, ub)
           calls == IF done.out = "sendOutgoingPacket" /\ callBack
                    THEN <<done.pkt>> ELSE <<>>
       IN  /\ wpLog' = Append(wpLog, [thread |-> t, pkt |-> packet, out |-> done.out,
                                      cb |-> calls])
           /\ cbLog' = cbLog \o CallBacks(t, calls)
           /\ crashed' = (done.out = "fault")
           /\ IF done.out = "enqueueWrite"
              THEN /\ Enter(t, "put_wait", Frame(done.pkt))
                   /\ epc' = [epc EXCEPT ![t] = "ew_put"]
              ELSE UNCHANGED <<qpc, qarg, qret, epc>>
    /\ pktOps' = pktOps + 1
    /\ UNCHANGED <<dq, opsLeft, nextPkt, hist, fdLog, enqLog, fails, fdCalls, lifeVars,
                   ipVars, dnsVars, scanVars, callBack, readLog>>

\* the fd is readable but not writable: onRead runs, onWrite does not
NextPacket ==
    \/ \E buffer \in ReadBuffers, ub \in StaleBytes : ReadReady(buffer, ub)
    \/ \E t \in Callers :
         \/ \E packet \in WritePackets, ub \in StaleBytes : CallWritePacket(t, packet, ub)
         \/ EwWaitHoles(t)
         \/ EwPutLink(t)
         \/ EwSignalFilled(t)
         \/ EwCheck(t)
         \/ EwAdd(t)

SpecPacket == InitPacket /\ [][NextPacket]_vars

\* the fd is writable and yields nothing: writePacket on the caller threads,
\* onWrite on the reactor thread
NextPacketWrite ==
    \/ \E t \in Callers :
         \/ \E packet \in WritePackets, ub \in StaleBytes : CallWritePacket(t, packet, ub)
         \/ EwPutLink(t)
         \/ EwCheck(t)
         \/ EwAdd(t)
    \/ \E t \in Threads :
         \/ EwWaitHoles(t)
         \/ EwSignalFilled(t)
    \/ OnWrite
    \/ OwLoop
    \/ OwWaitFilled
    \/ OwTakeUnlink
    \/ OwTakeSignal
    \/ OwTakeAbsent
    \/ OwWriteOk
    \/ OwWriteAgain
    \/ OwWriteError
    \/ OwPutFirstLink
    \/ OwBreak
    \/ OwEnd
    \/ OwDel

InitPacketWrite == InitPacket /\ dnsMap = EmptyMap

SpecPacketWrite == InitPacketWrite /\ [][NextPacketWrite]_vars

-----------------------------------------------------------------------------
(* The classes of packets the claims speak of, read off the bytes as the  *)
(* packet formats define them.                                             *)

\* the packet onRead is left with: the buffer without its 4-byte utun header
Unframed(buffer) == SubSeq(buffer, 5, Len(buffer))

IsIPv4(p) == Len(p) >= IpStructLen /\ At(p, 0) \div 16 = 4

IsICMP(p) == IsIPv4(p) /\ At(p, 9) = IPPROTO_ICMP

\* the end of a question that starts with a QNAME at offset, or -1 when a
\* label or a pointer runs past the n bytes of the payload
RECURSIVE QNameEnd(_, _, _)
QNameEnd(payload, offset, n) ==
    IF offset >= n THEN -1
    ELSE LET b == At(payload, offset)
         IN  IF b = 0 THEN offset + 1
             ELSE IF b >= 192
             THEN IF offset + 1 < n /\ (b % 64) * 256 + At(payload, offset + 1) < n
                  THEN offset + 2 ELSE -1
             ELSE IF offset + 1 + b > n THEN -1
             ELSE QNameEnd(payload, offset + 1 + b, n)

IsUDP53(p) ==
    /\ IsIPv4(p)
    /\ At(p, 9) = IPPROTO_UDP
    /\ Len(p) >= (At(p, 0) % 16) * 4 + UdpHeaderLen
    /\ U16BE(p, (At(p, 0) % 16) * 4 + 2) = 53

DNSPayload(p) == SubSeq(p, (At(p, 0) % 16) * 4 + UdpHeaderLen + 1, Len(p))

\* the end of the question section (QNAME, QTYPE, QCLASS), or -1
QuestionEnd(p) ==
    LET payload == DNSPayload(p)
        nameEnd == QNameEnd(payload, 12, Len(payload))
    IN  IF Len(payload) >= 12 /\ nameEnd # -1 /\ nameEnd + 4 <= Len(payload)
        THEN nameEnd + 4 ELSE -1

\* IPv4 UDP to port 53, 12 bytes of DNS payload, the question within bounds
IsDNSQueryPacket(p) == IsUDP53(p) /\ QuestionEnd(p) # -1

\* the calls of the callback the reads made, read after read
RECURSIVE ReadCalls(_)
ReadCalls(log) == IF log = <<>> THEN <<>> ELSE Head(log).cb \o ReadCalls(Tail(log))

OnReactor(call) == call.thread = Reactor

PacketOf(calls) == [k \in 1..Len(calls) |-> calls[k].pkt]

\* C11: every call of the outbound callback is made by the reactor thread.
C11_CallbackOnReactor == \A i \in 1..Len(cbLog) : OnReactor(cbLog[i])

\* C12: with a callback installed, every buffer read whose packet is neither
\* ICMP nor a DNS query is passed to the callback once and puts nothing on
\* the write queue, and the reactor's calls are in the order of the reads.
C12_ReadPassThrough ==
    callBack =>
        /\ \A i \in 1..Len(readLog) :
             LET packet == Unframed(readLog[i].buf)
             IN  (~IsICMP(packet) /\ ~IsDNSQueryPacket(packet))
                     => /\ readLog[i].cb = <<packet>>
                        /\ readLog[i].enq = <<>>
        /\ PacketOf(SelectSeq(cbLog, OnReactor)) = ReadCalls(readLog)

\* C13: every write() on the tun fd is made by the reactor thread; a caller of
\* writePacket makes no call on the fd.
C13_WriteOnReactor ==
    /\ \A c \in fdCalls : c.op = "write" => c.thread = Reactor
    /\ \A c \in fdCalls : c.thread = Reactor

\* a caller's writePacket has queued a packet and the reactor has written it
C13_Witness ==
    /\ \E i \in 1..Len(wpLog) :
         /\ wpLog[i].thread \in Callers
         /\ wpLog[i].out = "enqueueWrite"
         /\ Frame(wpLog[i].pkt) \in Range(fdLog)
    /\ FdCall(Reactor, "write") \in fdCalls

\* the length of the IPv4 header of p, from its IHL field
IHL(p) == (At(p, 0) % 16) * 4

\* p is an IPv4 ICMP message of the given type
HasICMPType(p, type) == IsICMP(p) /\ Len(p) > IHL(p) /\ At(p, IHL(p)) = type

SourceOf(p) == Slice(p, 12, 4)

DestinationOf(p) == Slice(p, 16, 4)

Known(addr) == \E k \in Range(knownIPAddresses) : inet_aton(k) = addr

\* reply is request turned into an echo reply: type 0, addresses swapped,
\* everything after the ICMP checksum kept
IsEchoReplyTo(reply, request) ==
    /\ Len(reply) = Len(request)
    /\ HasICMPType(reply, 0)
    /\ SourceOf(reply) = DestinationOf(request)
    /\ DestinationOf(reply) = SourceOf(request)
    /\ SubSeq(reply, IHL(request) + 5, Len(reply))
           = SubSeq(request, IHL(request) + 5, Len(request))

MaxPointers == 5

\* the labels of the name that starts at offset, compression pointers followed
RECURSIVE LabelsAt(_, _, _)
LabelsAt(payload, offset, pointersLeft) ==
    IF offset >= Len(payload) THEN <<>>
    ELSE LET b == At(payload, offset)
         IN  IF b = 0 THEN <<>>
             ELSE IF b >= 192
             THEN IF pointersLeft = 0 \/ offset + 1 >= Len(payload) THEN <<>>
                  ELSE LabelsAt(payload, (b % 64) * 256 + At(payload, offset + 1),
                                pointersLeft - 1)
             ELSE IF offset + 1 + b > Len(payload) THEN <<>>
             ELSE <<Slice(payload, offset + 1, b)>>
                      \o LabelsAt(payload, offset + 1 + b, pointersLeft)

\* the QNAME of a DNS query packet, as its sequence of labels
QNameOf(p) == LabelsAt(DNSPayload(p), 12, MaxPointers)

\* some entry of the DNS map lists the name
Listed(labels) ==
    \E ip \in Addrs :
        /\ HasValue(dnsMap[ip])
        /\ \E h \in Range(Value(dnsMap[ip])) : labels = <<HostString(h)>>

\* C17: a DNS query read from the fd (IPv4, UDP to port 53, 12 bytes of DNS
\* payload, the question within bounds) is never passed to the callback, and
\* a response to it is put on the write queue only when its QNAME is in the
\* list of some entry of the DNS map.
C17_DNSQueryConsumed ==
    \A i \in 1..Len(readLog) :
        LET packet == Unframed(readLog[i].buf)
        IN  IsDNSQueryPacket(packet)
                => /\ readLog[i].cb = <<>>
                   /\ readLog[i].enq # <<>> => Listed(QNameOf(packet))

\* a query for a listed name was answered, and a query for a name that no
\* entry lists was consumed without an answer, with a callback installed
C17_Witness ==
    /\ callBack
    /\ \E i \in 1..Len(readLog) :
         /\ IsDNSQueryPacket(Unframed(readLog[i].buf))
         /\ readLog[i].enq # <<>>
    /\ \E i \in 1..Len(readLog) :
         /\ IsDNSQueryPacket(Unframed(readLog[i].buf))
         /\ ~Listed(QNameOf(Unframed(readLog[i].buf)))
         /\ readLog[i].enq = <<>>
         /\ dnsMap # EmptyMap

\* C39: for every DNS query read from the fd, at most one response is
\* appended to the write queue, whatever the DNS mapping holds.
C39_OneResponsePerQuery ==
    \A i \in 1..Len(readLog) :
        IsDNSQueryPacket(Unframed(readLog[i].buf)) => Len(readLog[i].enq) <= 1

\* the QTYPE of a DNS query packet: the two bytes, big-endian, that follow
\* its QNAME
QTypeOf(p) == U16BE(DNSPayload(p), QuestionEnd(p) - 4)

ANCountOf(p) == U16BE(DNSPayload(p), 6)

\* C18: the response to a DNS query for a listed name goes by the QTYPE that
\* follows the QNAME, whatever follows the question in the datagram: QTYPE 1
\* is answered with ANCOUNT 1, QTYPE 28 and 65 with ANCOUNT 0 and a DNS
\* message of header and question only, any other QTYPE is not answered.
C18_QTypeDecides ==
    \A i \in 1..Len(readLog) :
        LET packet    == Unframed(readLog[i].buf)
            responses == readLog[i].enq
        IN  (IsDNSQueryPacket(packet) /\ Listed(QNameOf(packet)))
                => IF QTypeOf(packet) = 1
                   THEN /\ responses # <<>>
                        /\ \A r \in Range(responses) : ANCountOf(r) = 1
                   ELSE IF QTypeOf(packet) \in {28, 65}
                   THEN /\ responses # <<>>
                        /\ \A r \in Range(responses) :
                             /\ ANCountOf(r) = 0
                             /\ Len(DNSPayload(r)) = QuestionEnd(packet)
                   ELSE responses = <<>>

\* the DNS message of an A response to query, answering with address ip:
\* header and question of the query with flags 81 80 and ANCOUNT 1, then
\* the answer record
AResponseMessage(query, ip) ==
    LET q == DNSPayload(query)
    IN  SubSeq(q, 1, 2) \o <<129, 128>> \o SubSeq(q, 5, 6) \o <<0, 1>>
            \o SubSeq(q, 9, QuestionEnd(query))
            \o <<192, 12, 0, 1, 0, 1, 0, 0, 1, 44, 0, 4>> \o inet_aton(ip)

\* entry ip of the DNS map lists the name
ListedAt(ip, labels) ==
    /\ HasValue(dnsMap[ip])
    /\ \E h \in Range(Value(dnsMap[ip])) : labels = <<HostString(h)>>

\* C19: every response put on the write queue for a QTYPE 1 query for a
\* listed name is the query cut at the end of its question plus the 16-byte
\* answer for the address of a listing entry, with flags 81 80, ANCOUNT 1,
\* addresses and ports swapped, the IPv4 total length the size of the buffer,
\* the UDP length that less the IP header, and UDP checksum 0.
C19_AResponseStructure ==
    \A i \in 1..Len(readLog) :
        LET packet == Unframed(readLog[i].buf)
        IN  (IsDNSQueryPacket(packet) /\ Listed(QNameOf(packet)) /\ QTypeOf(packet) = 1)
                => \A r \in Range(readLog[i].enq) :
                     /\ \E ip \in Addrs :
                          /\ ListedAt(ip, QNameOf(packet))
                          /\ DNSPayload(r) = AResponseMessage(packet, ip)
                     /\ IHL(r) = IHL(packet)
                     /\ SourceOf(r) = DestinationOf(packet)
                     /\ DestinationOf(r) = SourceOf(packet)
                     /\ U16BE(r, IHL(r)) = U16BE(packet, IHL(packet) + 2)
                     /\ U16BE(r, IHL(r) + 2) = U16BE(packet, IHL(packet))
                     /\ U16BE(r, 2) = Len(r)
                     /\ U16BE(r, IHL(r) + 4) = Len(r) - IHL(r)
                     /\ U16BE(r, IHL(r) + 6) = 0

\* C20: with a callback installed, a UDP datagram to port 53 read from the fd
\* whose DNS payload is shorter than 12 bytes, or whose question runs past
\* the payload (a label, a pointer, or the 4 bytes of QTYPE and QCLASS), is
\* passed to the callback and no response is put on the write queue.
C20_MalformedDNSPassed ==
    callBack =>
        \A i \in 1..Len(readLog) :
            LET packet == Unframed(readLog[i].buf)
            IN  (IsUDP53(packet) /\ ~IsDNSQueryPacket(packet))
                    => /\ readLog[i].cb = <<packet>>
                       /\ readLog[i].enq = <<>>

-----------------------------------------------------------------------------
(* SpecRead: the read path alone.  The reactor runs onRead for whatever    *)
(* read() returns, a whole frame or fewer than the 4 bytes of its header.  *)

\* what read() returns when it returns fewer than 4 bytes
ShortBuffers == {<<0>>, <<0, 0>>, <<0, 0, 0>>, <<69, 0, 0>>}

\* DNS queries whose compression pointers form a cycle: a pointer to itself,
\* two pointers to each other, a label followed by a pointer back to it
CyclicQueries ==
    {DNSQuery(DNSHeader(<<18, 52>>) \o <<192, 12>> \o TypeClass(1)),
     DNSQuery(DNSHeader(<<18, 52>>) \o <<192, 14, 192, 12>> \o TypeClass(1)),
     DNSQuery(DNSHeader(<<18, 52>>) \o <<1, 97, 192, 12>> \o TypeClass(1))}

NextRead ==
    \E buffer \in ReadBuffers \cup ShortBuffers \cup {Frame(q) : q \in CyclicQueries},
       ub \in StaleBytes :
        ReadReady(buffer, ub)

SpecRead == InitPacket /\ [][NextRead]_vars

\* C21: a read that returns 1, 2 or 3 bytes calls the callback for nothing
\* and puts nothing on the write queue.
C21_ShortReadDropped ==
    \A i \in 1..Len(readLog) :
        Len(readLog[i].buf) \in 1..3
            => /\ readLog[i].cb = <<>>
               /\ readLog[i].enq = <<>>

\* C22: every call of the callback made for a buffer of 4 bytes or more
\* that was read passes exactly the buffer without its first 4 bytes.
C22_ReadSymmetry ==
    \A i \in 1..Len(readLog) :
        Len(readLog[i].buf) >= 4
            => \A packet \in Range(readLog[i].cb) :
                 packet = SubSeq(readLog[i].buf, 5, Len(readLog[i].buf))

\* the callback was called for an ICMP echo request that was read and for a
\* packet that passed through
C22_Witness ==
    /\ \E i \in 1..Len(readLog) :
         /\ IsICMP(Unframed(readLog[i].buf))
         /\ readLog[i].cb # <<>>
    /\ \E i \in 1..Len(readLog) :
         /\ Len(readLog[i].buf) >= 4
         /\ ~IsICMP(Unframed(readLog[i].buf))
         /\ readLog[i].cb # <<>>

\* the writePacket calls that passed packet to enqueueWrite
Enqueued(packet) ==
    {j \in 1..Len(wpLog) : wpLog[j].out = "enqueueWrite" /\ wpLog[j].pkt = packet}

-----------------------------------------------------------------------------
(* The recursion of extractDNSName: which invocations it makes.            *)

\* number of invocations of extractDNSName the model follows for one name
MaxCalls == 10

\* a guard that lets every depth through
TooDeep_never(depth) == FALSE

\* if (depth > 5) return ""
TooDeep(depth) == depth > 5

\* the label loop of extractDNSName started at offset: the target of the
\* pointer it follows, or -1 when it ends without following one
RECURSIVE PointerOf(_, _, _)
PointerOf(payload, offset, maxLen) ==
    IF offset >= maxLen THEN -1
    ELSE LET len == At(payload, offset)
         IN  IF len >= 192
             THEN IF offset + 1 >= maxLen THEN -1
                  ELSE (len % 64) * 256 + At(payload, offset + 1)
             ELSE IF len = 0 THEN -1
             ELSE IF offset + 1 + len > maxLen THEN -1
             ELSE PointerOf(payload, offset + 1 + len, maxLen)

\* the depth arguments of the invocations extractDNSName(payload, offset,
\* maxLen, endOffset, depth) makes, itself first, up to callsLeft of them
RECURSIVE CallDepths(_, _, _, _, _)
CallDepths(payload, offset, maxLen, depth, callsLeft) ==
    IF callsLeft = 0 THEN <<>>
    ELSE <<depth>> \o
         (IF TooDeep(depth) \/ PointerOf(payload, offset, maxLen) = -1
          THEN <<>>
          ELSE CallDepths(payload, PointerOf(payload, offset, maxLen), maxLen,
                          depth + 1, callsLeft - 1))

\* the invocations isDNSQuery's call of extractDNSName makes for a packet
\* that gets as far as that call
NameCalls(p) == CallDepths(DNSPayload(p), 12, Len(DNSPayload(p)), 0, MaxCalls)

ReachesNameParse(p) == IsUDP53(p) /\ Len(DNSPayload(p)) >= 12

-----------------------------------------------------------------------------
(* SpecChecksum: writePacket answering echo requests from a known address, *)
(* over IPv4 headers of 20 and 24 bytes with varied fields.                *)

\* an IPv4 header of ihl words for an ICMP packet from 10.0.0.1
EchoHeader(ihl, id, ttl, dst) ==
    <<64 + ihl, 0, 0, ihl * 4 + 8>> \o id \o <<0, 0, ttl, IPPROTO_ICMP, 0, 0>>
        \o inet_aton(1) \o dst
        \o (IF ihl = 6 THEN <<1, 1, 1, 0>> ELSE <<>>)

EchoRequests ==
    {EchoHeader(ihl, id, ttl, dst) \o ICMPMessage(8) :
        ihl \in {5, 6}, id \in {<<0, 0>>, <<255, 255>>, <<18, 52>>},
        ttl \in {64, 255}, dst \in {LocalIP, <<255, 255, 255, 255>>}}

InitChecksum ==
    /\ InitPacket
    /\ callBack
    /\ knownIPAddresses = <<1>>
    /\ dnsMap = EmptyMap

NextChecksum ==
    \E t \in Callers, packet \in EchoRequests, ub \in StaleBytes :
        CallWritePacket(t, packet, ub)

SpecChecksum == InitChecksum /\ [][NextChecksum]_vars

\* the IPv4 header of p
HeaderOf(p) == SubSeq(p, 1, IHL(p))

\* header h with the 16-bit value c in its checksum field, as the code
\* stores it
WithChecksum(h, c) == PutU16Host(h, 10, c)

\* the IPv4 headers writePacket was given and the ones it made
HeadersSeen ==
    {HeaderOf(wpLog[i].pkt) : i \in 1..Len(wpLog)}
        \cup {HeaderOf(wpLog[i].cb[1]) : i \in {j \in 1..Len(wpLog) : wpLog[j].cb # <<>>}}

\* C25: for every IPv4 header H (of 4k bytes), with C the checksum computed
\* over H with its checksum field zeroed, the checksum computed over H with
\* C in the field is 0; the headers of the echo replies verify in this way.
C25_ChecksumVerifies ==
    /\ \A h \in HeadersSeen :
         computeIPChecksum(
             WithChecksum(h, computeIPChecksum(WithChecksum(h, 0), 0, Len(h))),
             0, Len(h)) = 0
    /\ \A i \in 1..Len(wpLog) :
         wpLog[i].cb # <<>>
             => computeIPChecksum(wpLog[i].cb[1], 0, IHL(wpLog[i].cb[1])) = 0

\* an echo reply was made with a 24-byte header whose words sum to more than
\* 16 bits
C25_Witness ==
    \E i \in 1..Len(wpLog) :
        /\ wpLog[i].cb # <<>>
        /\ IHL(wpLog[i].cb[1]) = 24
        /\ SumWords(wpLog[i].cb[1], 0, 24) > 65535

\* C26: a reactor thread whose dispatch loop has returned and that has run
\* to its end has freed the events and the event base it made, the tun fd
\* has been closed exactly once and tunFD is -1; the fd is never closed
\* more than once.
C26_LoopExitCleanup ==
    /\ closes <= 1
    /\ \A i \in Reactors :
         (rpc[i] = "exited" /\ rbase[i] # NullPtr)
             => /\ bases[i].st = "freed"
                /\ readEv[i].st = "freed"
                /\ writeEv[i].st = "freed"
                /\ closes = 1
                /\ ~fdOpen
                /\ tunFD = -1

\* a write() that failed with an errno other than EAGAIN / EWOULDBLOCK
IsWriteError(e) == e.kind = "write" /\ e.res = "error"

\* C27: after a write() that failed with an errno other than EAGAIN, the
\* entry is not taken or written again, the next thing the handler takes is
\* the entry that was appended to the queue behind it, and the reactor is
\* alive and dispatching.
C27_PermanentWriteError ==
    /\ \A i \in 1..Len(hist) :
         (IsWriteError(hist[i]) /\ Value(hist[i].pkt) \in Range(enqLog))
             => /\ \A j \in (i + 1)..Len(hist) : hist[j].pkt # hist[i].pkt
                /\ i < Len(hist)
                     => /\ hist[i + 1].kind = "take"
                        /\ HasValue(hist[i + 1].pkt)
                        /\ \E k \in 1..(Len(enqLog) - 1) :
                             /\ enqLog[k] = Value(hist[i].pkt)
                             /\ enqLog[k + 1] = Value(hist[i + 1].pkt)
    /\ (hist # <<>> /\ IsWriteError(hist[Len(hist)]))
           => ~crashed /\ rpc[Dispatcher] = "dispatch"

\* a write() failed for good, and the entry behind it was taken and written
C27_Witness ==
    \E i \in 1..(Len(hist) - 2) :
        /\ IsWriteError(hist[i])
        /\ hist[i + 2].kind = "write"
        /\ hist[i + 2].res = "ok"
        /\ hist[i + 2].pkt # hist[i].pkt

-----------------------------------------------------------------------------
(* The write path under fair scheduling: the reactor thread takes every    *)
(* step it can (the fd becomes writable whenever the write event is        *)
(* pending), and a caller that is inside enqueueWrite goes on to its end.  *)
(* No caller is obliged to call enqueueWrite again.                        *)

ReactorWrite ==
    \/ OnWrite
    \/ OwLoop
    \/ OwWaitFilled
    \/ OwTakeUnlink
    \/ OwTakeSignal
    \/ OwTakeAbsent
    \/ OwWriteOk
    \/ OwWriteAgain
    \/ OwWriteError
    \/ EwWaitHoles(Reactor)
    \/ OwPutFirstLink
    \/ EwSignalFilled(Reactor)
    \/ OwBreak
    \/ OwEnd
    \/ OwDel

CallerFinish(t) ==
    \/ EwWaitHoles(t)
    \/ EwPutLink(t)
    \/ EwSignalFilled(t)
    \/ EwCheck(t)
    \/ EwAdd(t)

SpecFair ==
    /\ Spec
    /\ WF_vars(ReactorWrite)
    /\ \A t \in Callers : WF_vars(CallerFinish(t))

\* C28: when onWrite returns and the write queue is empty, the write event
\* is not pending: an empty queue with the write event armed does not
\* outlast a run of the handler.
C28_EmptyQueueDisarmed ==
    [][(epc[Reactor] \in {"ow_end", "ow_del"} /\ epc'[Reactor] = "idle" /\ empty(dq'))
          => writeEv'[writeEvent'].st # "added"]_vars

\* something was written, the queue is empty, the write event is still armed
\* and the handler is at its event_del
C28_Witness ==
    /\ fdLog # <<>>
    /\ empty(dq)
    /\ epc[Reactor] = "ow_del"
    /\ event_pending(writeEvent)

\* C29: under fair scheduling, a write queue that is not empty has the write
\* event armed, or gets it armed, or is emptied, without another call of
\* enqueueWrite being needed (or the process has died).
C29_QueuedGetsArmed ==
    (~empty(dq)) ~> (event_pending(writeEvent) \/ empty(dq) \/ crashed)


-----------------------------------------------------------------------------
(* The reactor thread and the semaphores of the write queue.               *)

\* the reactor thread stands at a semaphore wait that has no permit: it
\* cannot go on until another thread signals that semaphore
ReactorBlocked ==
    \/ qpc[Reactor] = "take_wait" /\ dq.nFilled = 0
    \/ qpc[Reactor] \in {"put_wait", "putFirst_wait"} /\ dq.nHoles = 0

\* C30: inside onRead and onWrite the reactor thread never waits for
\* another thread on a semaphore of the write queue: when it comes to
\* nFilled.wait() in take(), or to nHoles.wait() in putFirst() or put(), a
\* permit is there.
C30_ReactorNeverBlocks == ~ReactorBlocked

-----------------------------------------------------------------------------
(* SpecSnapshot: one thread runs ConcurrentHashMap::forEach on dnsMap, as  *)
(* isDNSQuery does for a query, while another calls addDNSEntry,           *)
(* deleteDNSEntry and setDNSMap.  forEach copies the vector of buckets     *)
(* under the shared lock of the map; the copy of one bucket is made under  *)
(* the shared lock of that bucket.  put and remove take the exclusive lock *)
(* of the one bucket they change and no lock of the map; the assignment of *)
(* setDNSMap replaces the vector and takes no lock of the map assigned to. *)

\* the number of buckets (hashSize)
NumBuckets == 2

\* calls made against the mapping in one behaviour
MaxScanOps == 4

\* hashFn(key) % hashSize
BucketOf(key) == ((key - 1) % NumBuckets) + 1

\* what a reader racing with the assignment of the vector goes on to read:
\* it faults, or reads on in the storage the assignment released, or reads
\* the buckets of the new vector
ScanRaces == {"crash", "stale", "fresh"}

\* tmpSource[i] = hashMap[i]: the entries of bucket i join the copy
CopyBucket(storage, tmp, i) ==
    [key \in Addrs |-> IF BucketOf(key) = i THEN storage[key] ELSE tmp[key]]

\* the mapping has new contents while a forEach is running
Observe(scan, map) ==
    IF scan.pc \in {"copy", "iterate"}
    THEN [scan EXCEPT !.seen = @ \cup {map}]
    ELSE scan

InitSnapshot == InitDNS

\* forEach: the shared lock of the map is taken, the copy begins
FeBegin ==
    /\ ~crashed
    /\ dnsScan.pc \in {"idle", "done"}
    /\ scanOps < MaxScanOps
    /\ dnsScan' = [pc |-> "copy", i |-> 1, tmp |-> EmptyMap, src |-> None, seen |-> {dnsMap}]
    /\ scanOps' = scanOps + 1
    /\ UNCHANGED <<crashed, dnsVars, ipScan, NotDNS_Scan>>

\* forEach: tmpSource = hashMap, one bucket
FeCopy ==
    /\ ~crashed
    /\ dnsScan.pc = "copy"
    /\ LET storage == IF HasValue(dnsScan.src) THEN Value(dnsScan.src) ELSE dnsMap
       IN  dnsScan' = [dnsScan EXCEPT
                          !.tmp = CopyBucket(storage, dnsScan.tmp, dnsScan.i),
                          !.i   = dnsScan.i + 1,
                          !.pc  = IF dnsScan.i = NumBuckets THEN "iterate" ELSE "copy"]
    /\ UNCHANGED <<crashed, dnsVars, ipScan, scanOps, NotDNS_Scan>>

\* forEach: the lambda is called for every entry of the copy
FeIterate ==
    /\ ~crashed
    /\ dnsScan.pc = "iterate"
    /\ dnsScan' = [dnsScan EXCEPT !.pc = "done"]
    /\ UNCHANGED <<crashed, dnsVars, ipScan, scanOps, NotDNS_Scan>>

\* addDNSEntry on another thread
ScanAddDNSEntry(ip, host) ==
    /\ ~crashed
    /\ scanOps < MaxScanOps
    /\ dnsMap' = addDNSEntry(dnsMap, ip, host)
    /\ dnsScan' = Observe(dnsScan, dnsMap')
    /\ scanOps' = scanOps + 1
    /\ UNCHANGED <<crashed, dnsLast, dnsOnlyAdds, ipScan, NotDNS_Scan>>

\* deleteDNSEntry on another thread
ScanDeleteDNSEntry(ip) ==
    /\ ~crashed
    /\ scanOps < MaxScanOps
    /\ dnsMap' = removeKey(dnsMap, ip)
    /\ dnsScan' = Observe(dnsScan, dnsMap')
    /\ scanOps' = scanOps + 1
    /\ UNCHANGED <<crashed, dnsLast, dnsOnlyAdds, ipScan, NotDNS_Scan>>

\* setDNSMap on another thread: hashMap = rhs.getDataSource(), with no lock
\* of dnsMap held; a forEach that is copying the vector races with it
ScanSetDNSMap(map, race) ==
    /\ ~crashed
    /\ scanOps < MaxScanOps
    /\ race \in (IF dnsScan.pc = "copy" THEN ScanRaces ELSE {"fresh"})
    /\ dnsMap' = map
    /\ crashed' = (race = "crash")
    /\ dnsScan' = LET scan == Observe(dnsScan, map)
                  IN  IF race = "stale" /\ ~HasValue(scan.src)
                      THEN [scan EXCEPT !.src = Some(dnsMap)]
                      ELSE scan
    /\ scanOps' = scanOps + 1
    /\ UNCHANGED <<dnsLast, dnsOnlyAdds, ipScan, NotDNS_Scan>>

NextSnapshot ==
    \/ FeBegin
    \/ FeCopy
    \/ FeIterate
    \/ \E ip \in Addrs, host \in Hosts : ScanAddDNSEntry(ip, host)
    \/ \E ip \in Addrs : ScanDeleteDNSEntry(ip)
    \/ \E map \in OneEntryMaps, race \in ScanRaces : ScanSetDNSMap(map, race)

SpecSnapshot == InitSnapshot /\ [][NextSnapshot]_vars

\* C31: the entries a forEach on dnsMap has iterated are the contents the
\* mapping had at one instant of that forEach, whatever addDNSEntry,
\* deleteDNSEntry and setDNSMap calls other threads made meanwhile.
C31_DNSSnapshot == dnsScan.pc = "done" => dnsScan.tmp \in dnsScan.seen

-----------------------------------------------------------------------------
(* SpecIPScan: one thread runs the membership loop of handleICMPPacket or  *)
(* writePacket, for (const auto &ipAddress : knownIPAddresses), while      *)
(* another adds and deletes known addresses.  begin() and end() each take  *)
(* the shared lock, return an iterator of the vector and release the lock; *)
(* the loop then reads the vector's storage with no lock held.             *)

NotIP_Scan == <<dequeVars, writeVars, lifeVars, dnsVars, pktVars, putLast, slotVars>>

\* what a read through an iterator yields once its slot has been destroyed
\* or its storage released: a fault, the value last stored there, or bytes
\* that match no address
ScanReads == {"crash", "stale", "garbage"}

\* a string that is no address of the model
WildAddr == 0

\* the list has new contents while a loop is running
ObserveList(scan, list) ==
    IF scan.pc \in {"end", "loop"}
    THEN [scan EXCEPT !.seen = @ \cup {list}]
    ELSE scan

\* the storage after the vector has written list into it: slots past the
\* end of list keep what they held
Stored(mem, list) ==
    [k \in 1..(IF Len(mem) > Len(list) THEN Len(mem) ELSE Len(list)) |->
        IF k <= Len(list) THEN list[k] ELSE mem[k]]

\* the lowest slot whose element differs after an erase
FirstMoved(old, new) ==
    IF \E k \in 1..Len(old) : k > Len(new) \/ new[k] # old[k]
    THEN CHOOSE k \in 1..Len(old) :
             /\ (k > Len(new) \/ new[k] # old[k])
             /\ \A j \in 1..(k - 1) : j <= Len(new) /\ new[j] = old[j]
    ELSE 0

InitIPScan == InitKnownIP

\* the range-for: knownIPAddresses.begin()
IpBegin(target) ==
    /\ ~crashed
    /\ ipScan.pc \in {"idle", "done"}
    /\ scanOps < MaxScanOps
    /\ ipScan' = [NoIPScan EXCEPT !.pc = "end", !.cap = ipScan.cap, !.i = 1,
                                  !.target = target,
                                  !.mem = knownIPAddresses, !.seen = {knownIPAddresses}]
    /\ scanOps' = scanOps + 1
    /\ UNCHANGED <<crashed, ipVars, dnsScan, NotIP_Scan>>

\* the range-for: knownIPAddresses.end()
IpEnd ==
    /\ ~crashed
    /\ ipScan.pc = "end"
    /\ ipScan' = [ipScan EXCEPT !.pc = "loop", !.end = Len(knownIPAddresses) + 1]
    /\ UNCHANGED <<crashed, ipVars, dnsScan, scanOps, NotIP_Scan>>

\* the range-for: it != end, the read of *it and the comparison, ++it
IpStep(ub) ==
    /\ ~crashed
    /\ ipScan.pc = "loop"
    /\ IF ipScan.i = ipScan.end
       THEN /\ ub = "stale"
            /\ ipScan' = [ipScan EXCEPT !.pc = "done"]
            /\ UNCHANGED crashed
       ELSE LET live  == ~ipScan.freed /\ ipScan.i <= Len(knownIPAddresses)
                moved == ipScan.shifted # 0 /\ ipScan.i >= ipScan.shifted
                value == IF live \/ (ub = "stale" /\ ipScan.i <= Len(ipScan.mem))
                         THEN ipScan.mem[ipScan.i]
                         ELSE WildAddr
            IN  /\ live => ub = "stale"
                /\ crashed' = (ub = "crash")
                /\ ipScan' = [ipScan EXCEPT
                                 !.read  = Append(@, value),
                                 !.bad   = @ \/ ~live \/ moved,
                                 !.found = (value = ipScan.target),
                                 !.i     = IF value = ipScan.target THEN @ ELSE @ + 1,
                                 !.pc    = IF value = ipScan.target THEN "done" ELSE "loop"]
    /\ UNCHANGED <<ipVars, dnsScan, scanOps, NotIP_Scan>>

\* the capacity of a vector after emplace_back on a full one
Grown(cap) == IF cap = 0 THEN 1 ELSE 2 * cap

\* addKnownIPAddress on another thread; emplace_back moves the elements to
\* new storage when the capacity is used up
ScanAddKnown(x) ==
    /\ ~crashed
    /\ scanOps < MaxScanOps
    /\ ~contains(knownIPAddresses, x)
    /\ knownIPAddresses' = add(knownIPAddresses, x)
    /\ ipScan' = LET scan    == ObserveList(ipScan, knownIPAddresses')
                     realloc == Len(knownIPAddresses) = scan.cap
                     grown   == [scan EXCEPT !.cap = IF realloc THEN Grown(@) ELSE @]
                 IN  IF scan.pc \in {"end", "loop"} /\ ~scan.freed
                     THEN IF realloc
                          THEN [grown EXCEPT !.freed = TRUE]
                          ELSE [grown EXCEPT !.mem = Stored(@, knownIPAddresses')]
                     ELSE grown
    /\ scanOps' = scanOps + 1
    /\ UNCHANGED <<crashed, ipc, iparg, ipOps, dnsScan, NotIP_Scan>>

\* deleteKnownIPAddress on another thread; erase moves the elements behind
\* the erased one down by one slot and destroys the last
ScanDeleteKnown(x) ==
    /\ ~crashed
    /\ scanOps < MaxScanOps
    /\ knownIPAddresses' = remove(knownIPAddresses, x)
    /\ ipScan' = LET scan  == ObserveList(ipScan, knownIPAddresses')
                     first == FirstMoved(knownIPAddresses, knownIPAddresses')
                 IN  IF scan.pc \in {"end", "loop"} /\ ~scan.freed /\ first # 0
                     THEN [scan EXCEPT
                              !.mem = Stored(@, knownIPAddresses'),
                              !.shifted = IF @ = 0 \/ first < @ THEN first ELSE @]
                     ELSE scan
    /\ scanOps' = scanOps + 1
    /\ UNCHANGED <<crashed, ipc, iparg, ipOps, dnsScan, NotIP_Scan>>

NextIPScan ==
    \/ \E target \in Addrs : IpBegin(target)
    \/ IpEnd
    \/ \E ub \in ScanReads : IpStep(ub)
    \/ \E x \in Addrs : ScanAddKnown(x)
    \/ \E x \in Addrs : ScanDeleteKnown(x)

SpecIPScan == InitIPScan /\ [][NextIPScan]_vars

\* C32: a membership loop over knownIPAddresses that has ended has read
\* no slot that an add or delete on another thread released, destroyed or
\* moved an element into, and what it read is the list as it was at one
\* instant of the loop: all of it, or its elements up to the match.
C32_KnownIPSnapshot ==
    ipScan.pc = "done" =>
        /\ ~ipScan.bad
        /\ \E list \in ipScan.seen :
             /\ IsPrefix(ipScan.read, list)
             /\ ipScan.found \/ ipScan.read = list

-----------------------------------------------------------------------------
(* SpecEcho: writePacket on ICMP echo requests from the known address      *)
(* 10.0.0.1 whose ICMP message is the 8-byte header and 0 to 3 bytes of    *)
(* payload, under IPv4 headers of 20 and 24 bytes.                         *)

\* payloads of an echo request: none, odd and even lengths, last byte zero
\* and not zero
EchoPayloads == {<<>>, <<7>>, <<0>>, <<7, 9>>, <<1, 2, 3>>, <<255, 255, 255>>}

\* an echo request with its total length field set to its size
EchoPacket(ihl, payload) ==
    PutU16BE(EchoHeader(ihl, <<18, 52>>, 64, LocalIP), 2, ihl * 4 + 8 + Len(payload))
        \o ICMPMessage(8) \o payload

NextEcho ==
    \E t \in Callers, ihl \in {5, 6}, payload \in EchoPayloads, ub \in StaleBytes :
        CallWritePacket(t, EchoPacket(ihl, payload), ub)

SpecEcho == InitChecksum /\ [][NextEcho]_vars

\* the sum of the 16-bit words of bytes in network order, an odd last byte
\* padded with a zero byte (RFC 1071)
RECURSIVE NetworkSum(_)
NetworkSum(bytes) ==
    IF Len(bytes) = 0 THEN 0
    ELSE IF Len(bytes) = 1 THEN bytes[1] * 256
    ELSE bytes[1] * 256 + bytes[2] + NetworkSum(SubSeq(bytes, 3, Len(bytes)))

\* bytes, its checksum field included, verify as an Internet checksum: the
\* one's complement sum is 0xFFFF
ValidChecksum(bytes) == Fold16(NetworkSum(bytes)) = 65535

\* the ICMP message of p: total length minus IP header length bytes
ICMPOf(p) == SubSeq(p, IHL(p) + 1, U16BE(p, 2))

\* C33: the callback gets, for every echo request from a known source that
\* writePacket is given, a packet of ICMP type 0 with source and destination
\* swapped whose IPv4 header checksum and ICMP checksum (over total length
\* minus header length bytes, an even or odd number) are valid.
C33_EchoReplyWellFormed ==
    \A i \in 1..Len(wpLog) :
        LET packet == wpLog[i].pkt
        IN  (HasICMPType(packet, 8) /\ Known(SourceOf(packet)))
                => /\ Len(wpLog[i].cb) = 1
                   /\ LET reply == wpLog[i].cb[1]
                      IN  /\ HasICMPType(reply, 0)
                          /\ SourceOf(reply) = DestinationOf(packet)
                          /\ DestinationOf(reply) = SourceOf(packet)
                          /\ ValidChecksum(HeaderOf(reply))
                          /\ ValidChecksum(ICMPOf(reply))

-----------------------------------------------------------------------------
(* SpecClear: client threads calling put, take and clear on one            *)
(* LinkedBlockingDeque(Capacity).  clear() runs under the write lock: it   *)
(* walks from head, pointing every node it leaves at itself and nulling    *)
(* the item of every node it comes to, sets head = last and _count = 0,    *)
(* and calls nHoles.reset(), which wakes a waiter and changes no count.    *)

\* the calls a client of SpecClear makes
ClearCalls == {"put_wait", "take_wait", "clear"}

\* Semaphore::reset: pthread_cond_signal if count >= 1; the count stays
reset(count) == count

\* clear(), the locked block
clear(q) ==
    LET chain == Chain(q.nodes, q.head, {})
        n     == Len(chain)
        walked == [p \in 1..Len(q.nodes) |->
                     IF \E k \in 1..n : chain[k] = p
                     THEN LET k == CHOOSE j \in 1..n : chain[j] = p
                          IN  NewNode(IF k > 1 THEN None ELSE q.nodes[p].item,
                                      IF k < n THEN p ELSE q.nodes[p].next)
                     ELSE q.nodes[p]]
    IN  Collect([q EXCEPT !.nodes = walked,
                          !.head = q.last,
                          !.count = 0,
                          !.nHoles = reset(q.nHoles)])

ClearCall(t) ==
    /\ ~crashed
    /\ Idle(t)
    /\ opsLeft > 0
    /\ \E op \in ClearCalls :
         \E e \in IF TakesArgument(op) THEN Vals ELSE {None} : Enter(t, op, e)
    /\ opsLeft' = opsLeft - 1
    /\ UNCHANGED <<dq, crashed, NotDeque>>

\* clear() from the lock to its return
ClientClear(t) ==
    /\ ~crashed
    /\ qpc[t] = "clear"
    /\ dq' = clear(dq)
    /\ qpc' = [qpc EXCEPT ![t] = "done"]
    /\ UNCHANGED <<qarg, qret, opsLeft, crashed, NotDeque>>

NextClear ==
    \E t \in Callers :
        \/ ClearCall(t)
        \/ ClientReturn(t)
        \/ ClientWaitHoles(t)
        \/ ClientPutLink(t)
        \/ ClientSignalFilled(t)
        \/ ClientWaitFilled(t)
        \/ ClientTakeUnlink(t)
        \/ ClientTakeSignal(t)
        \/ ClientClear(t)

SpecClear == InitDeque /\ [][NextClear]_vars

\* C34: when clear() returns and no other call is in progress, the deque
\* is as a new one of its capacity: size() is 0, forEach visits nothing,
\* take() would block (nFilled has no permit) and capacity puts can
\* complete (nHoles has capacity permits).
C34_ClearResets ==
    [][\A t \in Callers :
          (qpc[t] = "clear" /\ qpc'[t] = "done" /\ \A u \in Threads \ {t} : qpc'[u] = "idle")
              => /\ size(dq') = 0
                 /\ Items(dq') = <<>>
                 /\ dq'.nFilled = 0
                 /\ dq'.nHoles = dq'.capacity]_vars

-----------------------------------------------------------------------------
(* SpecPut: ConcurrentHashMap::put and remove called on dnsMap with        *)
(* addresses as keys and lists of hostnames as values.  put delegates to   *)
(* HashBucket::put, which runs under the exclusive lock of the bucket.     *)

\* the lists a caller passes as values
HostLists == {<<h>> : h \in Hosts} \cup {<<h[1], h[2]>> : h \in Hosts \X Hosts}

\* HashBucket::put, the value returned: it = myMap.find(key) is taken
\* first, then myMap[key] = value is stored, then (*it).second is read
\* through the iterator if it is not end()
putResult(map, key, value) ==
    LET found  == HasValue(get(map, key))
        stored == put(map, key, value)
    IN  IF found THEN get(stored, key) ELSE None

MapPut(key, value) ==
    /\ scanOps < MaxScanOps
    /\ dnsMap' = put(dnsMap, key, value)
    /\ putLast' = Some([key |-> key, value |-> value, before |-> get(dnsMap, key),
                        result |-> putResult(dnsMap, key, value)])
    /\ scanOps' = scanOps + 1
    /\ UNCHANGED <<crashed, dnsLast, dnsOnlyAdds, dnsScan, ipScan, dequeVars, writeVars,
                   lifeVars, ipVars, pktVars, slotVars>>

MapRemove(key) ==
    /\ scanOps < MaxScanOps
    /\ dnsMap' = removeKey(dnsMap, key)
    /\ putLast' = None
    /\ scanOps' = scanOps + 1
    /\ UNCHANGED <<crashed, dnsLast, dnsOnlyAdds, dnsScan, ipScan, dequeVars, writeVars,
                   lifeVars, ipVars, pktVars, slotVars>>

NextPut ==
    \/ \E key \in Addrs, value \in HostLists : MapPut(key, value)
    \/ \E key \in Addrs : MapRemove(key)

SpecPut == InitDNS /\ [][NextPut]_vars

\* C35: put(key, value) returns the value key was mapped to before the call,
\* or nothing if it had none, and leaves key mapped to value.
C35_PutReturnsPrevious ==
    HasValue(putLast) =>
        /\ Value(putLast).result = Value(putLast).before
        /\ get(dnsMap, Value(putLast).key) = Some(Value(putLast).value)

-----------------------------------------------------------------------------
(* SpecCallBack: the callback slot.  Threads call sendOutgoingPacket (the  *)
(* reactor from onRead, callers from writePacket) and                      *)
(* setOutgoingPacketCallBack; a callback that is running may itself call   *)
(* setOutgoingPacketCallBack, or writePacket and through it                *)
(* sendOutgoingPacket, on its own thread.  callBackMutex is a std::mutex:  *)
(* a thread that locks it while holding it does not return.                *)

\* the functions a caller installs; 0 is the empty std::function
NumFns == 2

\* calls of the two functions in one behaviour
MaxCbOps == 4

NotSlot == <<crashed, dequeVars, writeVars, lifeVars, ipVars, dnsVars, pktVars, dnsScan, ipScan,
             putLast, scanOps>>

\* the innermost call of thread t
Top(t) == cstack[t][Len(cstack[t])]

InCall(t, fn, pc) == cstack[t] # <<>> /\ Top(t).fn = fn /\ Top(t).pc = pc

\* the callback is running on t, or t is in no call: t may make a call
MayCall(t) == cstack[t] = <<>> \/ InCall(t, "send", "invoke")

SetTop(t, frame) == [cstack EXCEPT ![t][Len(cstack[t])] = frame]

Pop(t) == [cstack EXCEPT ![t] = SubSeq(@, 1, Len(@) - 1)]

\* the slot holds f from now on: every sendOutgoingPacket in progress that
\* has not yet called its copy has seen f in the slot
SeenBy(stacks, f) ==
    [t \in Threads |->
        [k \in 1..Len(stacks[t]) |->
            IF stacks[t][k].fn = "send" /\ stacks[t][k].pc # "invoke"
            THEN [stacks[t][k] EXCEPT !.seen = @ \cup {f}]
            ELSE stacks[t][k]]]

InitCallBack == InitDNS

\* sendOutgoingPacket is entered
CbSend(t) ==
    /\ MayCall(t)
    /\ cbOps < MaxCbOps
    /\ cstack' = [cstack EXCEPT ![t] = Append(@, [fn |-> "send", pc |-> "lock", cb |-> 0,
                                                  arg |-> 0, seen |-> {cbFn}])]
    /\ cbOps' = cbOps + 1
    /\ UNCHANGED <<cbMutex, cbFn, NotSlot>>

\* setOutgoingPacketCallBack(f) is entered
CbSet(t, f) ==
    /\ MayCall(t)
    /\ cbOps < MaxCbOps
    /\ cstack' = [cstack EXCEPT ![t] = Append(@, [fn |-> "set", pc |-> "lock", cb |-> 0,
                                                  arg |-> f, seen |-> {}])]
    /\ cbOps' = cbOps + 1
    /\ UNCHANGED <<cbMutex, cbFn, NotSlot>>

\* std::lock_guard<std::mutex> lock(callBackMutex)
CbLock(t) ==
    /\ cstack[t] # <<>>
    /\ Top(t).pc = "lock"
    /\ cbMutex = NoThread
    /\ cbMutex' = t
    /\ cstack' = SetTop(t, [Top(t) EXCEPT !.pc = "locked"])
    /\ UNCHANGED <<cbFn, cbOps, NotSlot>>

\* sendOutgoingPacket: cb = callBack
SendCopy(t) ==
    /\ InCall(t, "send", "locked")
    /\ cstack' = SetTop(t, [Top(t) EXCEPT !.pc = "copied", !.cb = cbFn])
    /\ UNCHANGED <<cbMutex, cbFn, cbOps, NotSlot>>

\* a sendOutgoingPacket that calls the callback without releasing the mutex
SendUnlock_holding(t) ==
    /\ InCall(t, "send", "copied")
    /\ cstack' = IF Top(t).cb = 0 THEN Pop(t) ELSE SetTop(t, [Top(t) EXCEPT !.pc = "invoke"])
    /\ UNCHANGED <<cbMutex, cbFn, cbOps, NotSlot>>

\* sendOutgoingPacket: the lock_guard's block ends; if (cb) cb(packet)
SendUnlock(t) ==
    /\ InCall(t, "send", "copied")
    /\ cbMutex' = NoThread
    /\ cstack' = IF Top(t).cb = 0 THEN Pop(t) ELSE SetTop(t, [Top(t) EXCEPT !.pc = "invoke"])
    /\ UNCHANGED <<cbFn, cbOps, NotSlot>>

\* the callback returns, and sendOutgoingPacket with it
CbReturn(t) ==
    /\ InCall(t, "send", "invoke")
    /\ cstack' = Pop(t)
    /\ UNCHANGED <<cbMutex, cbFn, cbOps, NotSlot>>

\* setOutgoingPacketCallBack: this->callBack = std::move(callBack)
SetAssign(t) ==
    /\ InCall(t, "set", "locked")
    /\ cbFn' = Top(t).arg
    /\ cstack' = SeenBy(SetTop(t, [Top(t) EXCEPT !.pc = "assigned"]), Top(t).arg)
    /\ UNCHANGED <<cbMutex, cbOps, NotSlot>>

\* setOutgoingPacketCallBack returns: the lock_guard releases the mutex
SetUnlock(t) ==
    /\ InCall(t, "set", "assigned")
    /\ cbMutex' = NoThread
    /\ cstack' = Pop(t)
    /\ UNCHANGED <<cbFn, cbOps, NotSlot>>

\* the steps a thread takes inside the two functions and inside a callback
\* that returns
CbStep(t) ==
    \/ CbLock(t)
    \/ SendCopy(t)
    \/ SendUnlock(t)
    \/ CbReturn(t)
    \/ SetAssign(t)
    \/ SetUnlock(t)

NextCallBack ==
    \E t \in Threads :
        \/ CbSend(t)
        \/ \E f \in 0..NumFns : CbSet(t, f)
        \/ CbLock(t)
        \/ SendCopy(t)
        \/ SendUnlock(t)
        \/ CbReturn(t)
        \/ SetAssign(t)
        \/ SetUnlock(t)

SpecCallBack == InitCallBack /\ [][NextCallBack]_vars

\* every thread goes on in a call it has begun
SpecCallBackFair == SpecCallBack /\ \A t \in Threads : WF_vars(CbStep(t))

\* C36: callBackMutex is held only between the lock and the end of the
\* guarded block, never while a callback runs; so every call of
\* sendOutgoingPacket and setOutgoingPacketCallBack completes, those made
\* from inside a running callback and those racing on other threads
\* included; and the function a sendOutgoingPacket calls is one the slot
\* held at an instant of that call.
C36_CallBackSlot ==
    /\ [](\A t \in Threads :
            /\ cbMutex = t => (cstack[t] # <<>> /\ Top(t).pc \in {"locked", "copied", "assigned"})
            /\ \A k \in 1..Len(cstack[t]) :
                 (cstack[t][k].fn = "send" /\ cstack[t][k].pc = "invoke")
                     => cstack[t][k].cb \in cstack[t][k].seen)
    /\ \A t \in Threads : (cstack[t] # <<>>) ~> (cstack[t] = <<>>)

\* a callback, while it runs, replaces itself and holds the mutex for it,
\* and another thread is waiting to send
C36_Witness ==
    \E t \in Threads, u \in Threads :
        /\ t # u
        /\ Len(cstack[t]) = 2
        /\ cstack[t][1].fn = "send" /\ cstack[t][1].pc = "invoke"
        /\ cstack[t][2].fn = "set" /\ cstack[t][2].pc = "assigned"
        /\ InCall(u, "send", "lock")

====
